---- MODULE Spec2Model ----
(***************************************************************************)
(* Field-reconciliation engine of xtharid_job                              *)
(* (src/update_products/field_updater.py), with the SyncedProduct table    *)
(* of src/db.py and the record creation of                                 *)
(* src/create_products/product_sync.py.                                    *)
(*                                                                         *)
(* The Gateway (fetch of the live field set, set-field push) and the       *)
(* Product table are the environment: each Gateway call answers with one   *)
(* of the outcomes the calling code distinguishes, a Product row may       *)
(* disappear or become unparsable between two batch runs.                  *)
(***************************************************************************)
EXTENDS Integers, Sequences, FiniteSets, TLC

(***************************************************************************)
(* Bounds of the model.                                                    *)
(***************************************************************************)
\* the clock stops being read after MaxClock ticks (one tick per record processed)
MaxClock == 3

\* at most MaxLost Product rows are lost
MaxLost == 1

Users == {"u1", "u2"}
Products == {"p1", "p2", "p3", "p4"}
\* the listings each account pushes to the marketplace
Accounts == {<<"u1", "p1">>, <<"u1", "p3">>, <<"u1", "p4">>, <<"u2", "p2">>}
\* the Product rows that can be lost
Losable == {"p1", "p3"}
\* values of products_per_batch a batch run is constructed with
BatchSizes == {1, 2}

(***************************************************************************)
(* JSON / Python values, tagged by kind.                                   *)
(***************************************************************************)
None == [k |-> "null", v |-> 0]
B(b) == [k |-> "bool", v |-> b]
I(n) == [k |-> "int", v |-> n]
S(s) == [k |-> "str", v |-> s]
L(q) == [k |-> "list", v |-> q]
\* a float, held in tenths: F(125) is 12.5
F(t) == [k |-> "float", v |-> t]
\* a JSON object: a sequence of <<key, value>> pairs
D(q) == [k |-> "dict", v |-> q]
\* an int that float() cannot represent (json.loads reads integers of any size)
BigInt == [k |-> "bigint", v |-> 0]
\* an exception leaving the function instead of a value
Raise(exc) == [k |-> "raise", v |-> exc]
IsRaise(x) == x.k = "raise"

\* str(x) of Python, for the values of the model
DigitChar == <<"0", "1", "2", "3", "4", "5", "6", "7", "8", "9">>

RECURSIVE NatToStr(_)
NatToStr(n) == IF n < 10 THEN DigitChar[n + 1]
               ELSE NatToStr(n \div 10) \o DigitChar[(n % 10) + 1]

RECURSIVE PyRepr(_)
RECURSIVE JoinRepr(_)
JoinRepr(q) == IF Len(q) = 0 THEN ""
               ELSE IF Len(q) = 1 THEN PyRepr(q[1])
               ELSE PyRepr(q[1]) \o ", " \o JoinRepr(Tail(q))

RECURSIVE JoinItems(_)
JoinItems(q) == IF Len(q) = 0 THEN ""
                ELSE IF Len(q) = 1 THEN "'" \o q[1][1] \o "': " \o PyRepr(q[1][2])
                ELSE "'" \o q[1][1] \o "': " \o PyRepr(q[1][2]) \o ", " \o JoinItems(Tail(q))

PyRepr(x) == CASE x.k = "null" -> "None"
               [] x.k = "bool" -> IF x.v THEN "True" ELSE "False"
               [] x.k = "int"  -> IF x.v < 0 THEN "-" \o NatToStr(0 - x.v) ELSE NatToStr(x.v)
               [] x.k = "float" -> NatToStr(x.v \div 10) \o "." \o DigitChar[(x.v % 10) + 1]
               [] x.k = "str"  -> "'" \o x.v \o "'"
               [] x.k = "list" -> "[" \o JoinRepr(x.v) \o "]"
               [] x.k = "dict" -> "{" \o JoinItems(x.v) \o "}"
               [] x.k = "bigint" -> "1" \o "000...000"

PyStr(x) == IF x.k = "str" THEN x.v ELSE PyRepr(x)

\* str.lower() on the strings of the model
Lower(s) == CASE s = "TRUE" -> "true"
              [] s = "True" -> "true"
              [] s = "Yes"  -> "yes"
              [] s = "ON"   -> "on"
              [] OTHER      -> s

\* float(s) of a string: <<parsed, integral, whole part>>; strings outside the
\* table raise ValueError
NumericStrings == {"0", "1", "10", "12", "33"}
ParseNat(s) == CASE s = "0" -> 0 [] s = "1" -> 1 [] s = "10" -> 10
                 [] s = "12" -> 12 [] s = "33" -> 33

\* bool(x) of Python
Truthy(x) == CASE x.k = "null" -> FALSE
               [] x.k = "bool" -> x.v
               [] x.k = "int"  -> x.v # 0
               [] x.k = "float" -> x.v # 0
               [] x.k = "str"  -> x.v # ""
               [] x.k = "list" -> Len(x.v) > 0
               [] x.k = "dict" -> Len(x.v) > 0
               [] x.k = "bigint" -> TRUE

\* s[0] of a non-empty string
FirstChar(s) == CASE s = "img-77" -> "i" [] s = "acme" -> "a" [] s = "Lamp" -> "L"
                  [] s = "Desk" -> "D" [] s = "abc" -> "a" [] s = "yes" -> "y"
                  [] s = "Yes" -> "Y" [] s = "12" -> "1" [] s = "TRUE" -> "T"
                  [] s = "on" -> "o" [] OTHER -> s

(***************************************************************************)
(* FieldUpdater.__init__: the three mapping tables.                        *)
(***************************************************************************)
field_mappings == [desc |-> "properties", photo |-> "images", year |-> "release_year",
                   producer |-> "vendor", brand |-> "mark"]

static_values == [regions |-> L(<<S("33")>>), delivery_period |-> I(10),
                  delivery_unit |-> I(1), license |-> B(FALSE),
                  guarantee |-> I(1), guarantee_unit |-> I(30)]

\* the fields with an entry in value_transformations
value_transformations == {"price", "best_before"}

(***************************************************************************)
(* FieldUpdater._convert_value_for_api: float() is inside a try that        *)
(* catches ValueError and TypeError only.                                  *)
(***************************************************************************)
_convert_value_for_api(local_value, field_info) ==
    LET field_type == field_info.type IN
    IF field_type \in {"number", "float", "int"} THEN
        CASE local_value.k = "int"  -> local_value
          [] local_value.k = "bigint" -> Raise("OverflowError")
          [] local_value.k = "float" ->
                IF local_value.v % 10 = 0 THEN I(local_value.v \div 10) ELSE local_value
          [] local_value.k = "bool" -> I(IF local_value.v THEN 1 ELSE 0)
          [] local_value.k = "str"  ->
                IF local_value.v \in NumericStrings
                THEN I(ParseNat(local_value.v))
                ELSE S(PyStr(local_value))
          [] OTHER -> S(PyStr(local_value))
    ELSE IF field_type = "bool" THEN
        CASE local_value.k = "bool" -> local_value
          [] local_value.k = "str"  ->
                B(Lower(local_value.v) \in {"true", "1", "yes", "on"})
          [] OTHER -> B(Truthy(local_value))
    ELSE IF field_type = "date" THEN
        S(PyStr(local_value))
    ELSE
        IF local_value.k \in {"list", "dict", "bool"} THEN local_value
        ELSE S(PyStr(local_value))

(***************************************************************************)
(* FieldUpdater._map_field_value: None is "no mapping".                    *)
(* A registered transformation is called with one argument: `price` is     *)
(* float(x) * 2 and raises on a value float() rejects, the zero-argument   *)
(* `best_before` lambda raises TypeError; a raise returns None.            *)
(* len(images), images[0] and _convert_value_for_api are called outside    *)
(* the try: what they raise leaves the function.                           *)
(***************************************************************************)
Transform_PassesThrough(api_field_name, value) == [ok |-> TRUE, value |-> value]

Transform(api_field_name, value) ==
    IF api_field_name = "price"
    THEN CASE value.k = "int" -> [ok |-> TRUE, value |-> F(20 * value.v)]
           [] value.k = "float" -> [ok |-> TRUE, value |-> F(2 * value.v)]
           [] value.k = "str" /\ value.v \in NumericStrings ->
                 [ok |-> TRUE, value |-> F(20 * ParseNat(value.v))]
           [] value.k = "bool" -> [ok |-> TRUE, value |-> F(IF value.v THEN 20 ELSE 0)]
           [] OTHER -> [ok |-> FALSE, value |-> None]
    ELSE [ok |-> FALSE, value |-> None]

_map_field_value_LocalFirst(api_field_name, local_data, field_info) ==
    IF api_field_name \in DOMAIN local_data
    THEN _convert_value_for_api(local_data[api_field_name], field_info)
    ELSE IF api_field_name \in DOMAIN static_values
    THEN _convert_value_for_api(static_values[api_field_name], field_info)
    ELSE None

_map_field_value_WholeList(api_field_name, local_data, field_info) ==
    IF api_field_name = "photo" /\ "images" \in DOMAIN local_data
                                /\ Truthy(local_data["images"])
    THEN _convert_value_for_api(local_data["images"], field_info)
    ELSE None

_map_field_value_NoRename(api_field_name, local_data, field_info) ==
    IF api_field_name \in DOMAIN local_data
    THEN _convert_value_for_api(local_data[api_field_name], field_info)
    ELSE None

_map_field_value(api_field_name, local_data, field_info) ==
    IF api_field_name \in DOMAIN static_values
    THEN _convert_value_for_api(static_values[api_field_name], field_info)
    ELSE
      LET local_field_name ==
              IF api_field_name \in DOMAIN field_mappings
              THEN field_mappings[api_field_name] ELSE api_field_name
      IN
      IF api_field_name = "photo" /\ local_field_name = "images"
      THEN LET images == IF "images" \in DOMAIN local_data
                         THEN local_data["images"] ELSE L(<<>>)
           IN  IF ~Truthy(images) THEN None
               ELSE CASE images.k = "list" -> _convert_value_for_api(images.v[1], field_info)
                      [] images.k = "str"  ->
                            _convert_value_for_api(S(FirstChar(images.v)), field_info)
                      [] images.k = "dict" -> Raise("KeyError")
                      [] OTHER -> Raise("TypeError")
      ELSE IF local_field_name \in DOMAIN local_data
      THEN LET value == local_data[local_field_name] IN
           IF api_field_name \in value_transformations
           THEN LET t == Transform(api_field_name, value) IN
                IF t.ok THEN _convert_value_for_api(t.value, field_info) ELSE None
           ELSE _convert_value_for_api(value, field_info)
      ELSE None


(***************************************************************************)
(* State.                                                                  *)
(***************************************************************************)
VARIABLES
    store,               \* the SyncedProduct table: a set of rows
    listing,             \* the Product table: product_id -> json_data
    remote,              \* the marketplace: proc_id -> live field set
    now,                 \* the clock datetime.now() reads
    pc,                  \* "idle", "fetch", "push", "done" or "raised"
    login,               \* FieldUpdater.login of the running batch
    products_per_batch,  \* FieldUpdater.products_per_batch of the running batch
    synced_products,     \* result of the queue query
    products,            \* products_with_data
    i,                   \* index of the record being processed
    field_updates,       \* field_updates of the record being processed
    k,                   \* index of the next field update to push
    successful_updates,
    failed_updates,
    field_errors,
    results,             \* the summary under construction
    trace,               \* the Gateway calls of the batch, one entry per record
    noop_done,           \* history: the records a pass found with nothing to update
    call,                \* one call of a function of the updater: arguments and result
    sync,                \* the create job (sync_products): its locals and summary
    client,              \* the APIClient of the running process: tokens, clock, requests
    scraper              \* ScrapperState.offset and the locals of scrape_and_save

vars == <<store, listing, remote, now, pc, login, products_per_batch,
          synced_products, products, i, field_updates, k,
          successful_updates, failed_updates, field_errors, results, trace,
          noop_done, call, sync, client, scraper>>

batch_vars == <<login, products_per_batch, synced_products, products>>
record_vars == <<field_updates, k, successful_updates, failed_updates, field_errors>>

\* NULL of a nullable DateTimeField; a stored time t is <<t>>
NULL == <<>>
At(t) == <<t>>

\* json_data of a Product row that is missing, or that json.loads rejects
ABSENT == [state |-> "absent"]
MALFORMED == [state |-> "malformed"]
Json(data) == [state |-> "json", data |-> data]

\* the listings the scraper stored
\* its price is text that float() rejects
LocalFull == ("images" :> L(<<S("img-77")>>)) @@ ("vendor" :> S("acme"))
             @@ ("title" :> S("Lamp")) @@ ("price" :> S("abc"))
LocalBare == ("title" :> S("Desk"))
\* a listing whose images are an object, not a list
LocalOdd == ("title" :> S("Shelf")) @@ ("images" :> D(<<<<"main", S("img-1")>>>>))
ScrapedListing == ("p1" :> Json(LocalFull)) @@ ("p2" :> Json(LocalBare))
                  @@ ("p3" :> Json(LocalBare)) @@ ("p4" :> Json(LocalOdd))

\* live field sets a procedure can have when it is created
Descriptor(f, v, t) == [field |-> f, value |-> v, type |-> t]
FieldsEmpty == ("license" :> Descriptor(TRUE, None, "bool"))
               @@ ("photo" :> Descriptor(TRUE, L(<<>>), "text"))
               @@ ("producer" :> Descriptor(TRUE, S(""), "char"))
               @@ ("title" :> Descriptor(FALSE, None, "char"))
               @@ ("price" :> Descriptor(TRUE, None, "number"))
FieldsNoLicense == ("license" :> Descriptor(TRUE, B(TRUE), "bool"))
                   @@ ("photo" :> Descriptor(TRUE, L(<<>>), "text"))
                   @@ ("producer" :> Descriptor(TRUE, S(""), "char"))
                   @@ ("title" :> Descriptor(TRUE, S("Desk"), "char"))
\* the live field set of the procedure created for a listing
CreatedFields(p) == IF p = "p3" THEN FieldsNoLicense ELSE FieldsEmpty

\* order in which a fetch response lists the fields
FieldOrder == <<"license", "photo", "price", "producer", "title">>

\* the proc_id the marketplace returns for a created procedure
UserNo(u) == IF u = "u1" THEN 1 ELSE 2
ProductNo(p) == CASE p = "p1" -> 1 [] p = "p2" -> 2 [] p = "p3" -> 3 [] p = "p4" -> 4
ProcId(u, p) == 10 * UserNo(u) + ProductNo(p)

(***************************************************************************)
(* db.py: SyncedProduct                                                    *)
(***************************************************************************)
SyncedProduct(u, p, proc, t) ==
    [username |-> u, product_id |-> p, proc_id |-> proc,
     is_fields_updated |-> FALSE, synced_at |-> t, last_attempt_time |-> NULL]

\* synced_at is written when the row is created and is read by nothing: the
\* time of creation is kept as a value of its own, equal to no other time
CreatedAt(u, p) == <<"created", u, p>>

SameRow(r, q) == r.username = q.username /\ r.product_id = q.product_id

\* Model.save() of a loaded row: UPDATE ... WHERE id = row.id
Save(table, row) ==
    IF \E r \in table : SameRow(r, row)
    THEN {r \in table : ~SameRow(r, row)} \cup {row}
    ELSE table

(***************************************************************************)
(* product_sync.py: SyncTracker                                            *)
(***************************************************************************)
is_synced(table, u, p) == \E r \in table : r.username = u /\ r.product_id = p

\* SyncedProduct.create: the unique index on (username, product_id) rejects a
\* second row, and the exception is swallowed
mark_as_synced(table, u, p, proc, t) ==
    IF \E r \in table : r.username = u /\ r.product_id = p
    THEN table
    ELSE table \cup {SyncedProduct(u, p, proc, t)}

(***************************************************************************)
(* field_updater.py: mark_as_updated, mark_as_failed.                      *)
(* `saved` is whether save() returned; when it raises the exception is     *)
(* swallowed and the table is unchanged.                                   *)
(***************************************************************************)
mark_as_updated_KeepsTime(table, synced_product, saved) ==
    IF saved
    THEN Save(table, [synced_product EXCEPT !.is_fields_updated = TRUE])
    ELSE table

mark_as_updated_NoFlag(table, synced_product, saved) ==
    IF saved
    THEN Save(table, [synced_product EXCEPT !.last_attempt_time = NULL])
    ELSE table

mark_as_failed_NoTime(table, synced_product, t, saved) == table

mark_as_failed_AllRows(table, synced_product, t, saved) ==
    {[r EXCEPT !.last_attempt_time = At(t)] : r \in table}

mark_as_updated(table, synced_product, saved) ==
    IF saved
    THEN Save(table, [synced_product EXCEPT !.is_fields_updated = TRUE,
                                            !.last_attempt_time = NULL])
    ELSE table

mark_as_failed(table, synced_product, t, saved) ==
    IF saved
    THEN Save(table, [synced_product EXCEPT !.last_attempt_time = At(t)])
    ELSE table

(***************************************************************************)
(* get_products_needing_updates: the queue query.                          *)
(* ORDER BY last_attempt_time ASC NULLS FIRST, computed as an insertion    *)
(* sort of the table scan on the key (is-not-null, time); rows with equal  *)
(* keys keep the order of the scan, which is any order.                    *)
(***************************************************************************)
OrderKey_NullsLast(r) == IF r.last_attempt_time = NULL THEN <<2, 0>>
                         ELSE <<1, r.last_attempt_time[1]>>

OrderKey(r) == IF r.last_attempt_time = NULL THEN <<0, 0>>
               ELSE <<1, r.last_attempt_time[1]>>

KeyLess(a, b) == a[1] < b[1] \/ (a[1] = b[1] /\ a[2] < b[2])

RECURSIVE Insert(_, _)
Insert(r, q) == IF q = <<>> THEN <<r>>
                ELSE IF KeyLess(OrderKey(r), OrderKey(Head(q))) THEN <<r>> \o q
                ELSE <<Head(q)>> \o Insert(r, Tail(q))

RECURSIVE OrderBy(_)
OrderBy(scan) == IF scan = <<>> THEN <<>>
                 ELSE Insert(scan[Len(scan)], OrderBy(SubSeq(scan, 1, Len(scan) - 1)))

Limit(q, n) == SubSeq(q, 1, IF Len(q) < n THEN Len(q) ELSE n)

Where_AnyFlag(table, u) == {r \in table : r.username = u}

Where(table, u) == {r \in table : r.username = u /\ r.is_fields_updated = FALSE}

\* the orders in which a scan can deliver a set of rows
Scans(rows) == {q \in [1..Cardinality(rows) -> rows] :
                  \A a, b \in 1..Cardinality(rows) : a # b => q[a] # q[b]}

SelectQuery(table, u, n, scan) == Limit(OrderBy(scan), n)

\* the loop over the selected rows: a row whose Product is missing or whose
\* json_data does not parse is left out of the result
Loadable(r) == listing[r.product_id].state = "json"
products_with_data(selected) == SelectSeq(selected, Loadable)

(***************************************************************************)
(* process_product_updates: the fields to update of one record.            *)
(***************************************************************************)
IsCandidate_MarkerOnly(field_name, field_info) == field_info.field

needs_update_Always(field_name, field_info) == TRUE

needs_update_AnyEmpty(field_name, field_info) ==
    LET api_value == field_info.value IN
       \/ api_value = None
       \/ api_value.k = "list" /\ Len(api_value.v) = 0
       \/ api_value = S("")

IsCandidate(field_name, field_info) ==
    field_info.field \/ field_name \in DOMAIN static_values
                     \/ field_name \in DOMAIN field_mappings

needs_update(field_name, field_info) ==
    LET api_value == field_info.value IN
       \/ api_value = None
       \/ field_name \in {"photo", "regions"} /\ api_value.k = "list" /\ Len(api_value.v) = 0
       \/ field_name = "producer" /\ api_value = S("")

RECURSIVE FieldUpdatesFrom(_, _, _)
FieldUpdatesFrom(names, api_fields, local_product_data) ==
    IF names = <<>> THEN <<>>
    ELSE LET field_name == Head(names)
             rest == FieldUpdatesFrom(Tail(names), api_fields, local_product_data)
         IN  IF field_name \notin DOMAIN api_fields THEN rest
             ELSE LET field_info == api_fields[field_name]
                      mapped_value == _map_field_value(field_name, local_product_data, field_info)
                  IN  IF IsCandidate(field_name, field_info)
                         /\ needs_update(field_name, field_info)
                         /\ mapped_value # None
                      THEN <<[field_id |-> field_name, field_value |-> mapped_value]>> \o rest
                      ELSE rest

\* _map_field_value is called for every candidate field, in need of filling or
\* not, outside any try: an exception it raises leaves process_product_updates
MappingRaises(api_fields, local_product_data) ==
    \E field_name \in DOMAIN api_fields :
        /\ IsCandidate(field_name, api_fields[field_name])
        /\ IsRaise(_map_field_value(field_name, local_product_data, api_fields[field_name]))

RECURSIVE QueueUnmappedFrom(_, _, _)
QueueUnmappedFrom(names, api_fields, local_product_data) ==
    IF names = <<>> THEN <<>>
    ELSE LET field_name == Head(names)
             rest == QueueUnmappedFrom(Tail(names), api_fields, local_product_data)
         IN  IF field_name \notin DOMAIN api_fields THEN rest
             ELSE LET field_info == api_fields[field_name]
                      mapped_value == _map_field_value(field_name, local_product_data, field_info)
                  IN  IF IsCandidate(field_name, field_info)
                         /\ needs_update(field_name, field_info)
                      THEN <<[field_id |-> field_name, field_value |-> mapped_value]>> \o rest
                      ELSE rest

FieldUpdates_QueuesUnmapped(api_fields, local_product_data) ==
    QueueUnmappedFrom(FieldOrder, api_fields, local_product_data)

FieldUpdates(api_fields, local_product_data) ==
    FieldUpdatesFrom(FieldOrder, api_fields, local_product_data)

(***************************************************************************)
(* The summary and the call trace.                                         *)
(***************************************************************************)
NoResults == [total |-> 0, successful |-> 0, failed |-> 0, errors |-> <<>>]

FetchError(r) == [product_id |-> r.product_id, proc_id |-> r.proc_id,
                  error |-> "Failed to fetch product details from API",
                  failed_updates |-> 0, of |-> 0, field_errors |-> <<>>]

PartialError(r, nfailed, total, errs) ==
    [product_id |-> r.product_id, proc_id |-> r.proc_id,
     error |-> "Failed to update fields",
     failed_updates |-> nfailed, of |-> total, field_errors |-> errs]

\* the delays start_field_updates passes to process_product_updates, in
\* tenths of a second
delay_between_requests == 100
delay_between_fields == 5

\* One trace entry per record the loop reaches: the row as it was loaded, the
\* answer to the fetch and the live fields it carried, the field updates
\* queued, the result of each push issued, which counter of the summary the
\* record went to, the time of the fetch, and the Gateway calls and
\* time.sleep calls made for the record, in order.
TraceEntry(r, resp, live, queued, t) ==
    [username |-> r.username, product_id |-> r.product_id, proc_id |-> r.proc_id,
     was |-> r.last_attempt_time, fetch |-> resp, live |-> live, queued |-> queued,
     pushes |-> <<>>, counted |-> "none", at |-> t, events |-> <<"fetch">>]

\* update_product_field, then `if delay_between_fields > 0: time.sleep(...)`
PushEvents == IF delay_between_fields > 0 THEN <<"push", "sleep">> ELSE <<"push">>

\* the end of the loop body:
\* `if i < len(products) and delay_between_requests > 0: time.sleep(...)`
EndOfBody(tr, index, loaded) ==
    IF index < Len(loaded) /\ delay_between_requests > 0
    THEN [tr EXCEPT ![Len(tr)].events = Append(@, "sleep")]
    ELSE tr

\* answers of the Gateway to a fetch, as fetch_product_details_from_api and its
\* caller tell them apart: the call raises, the response has no "result", the
\* result is empty, the result has no "fields", the result carries the live
\* fields
FetchOutcomes == {"raise", "no_result", "empty_result", "no_fields", "result"}

\* fetch_product_details_from_api: None, or the "result" of the response
NoData == [data |-> FALSE, truthy |-> FALSE, fields |-> <<>>]
fetch_product_details_from_api_Stale(resp, live) ==
    IF resp \in {"raise", "no_result"} THEN NoData
    ELSE [data |-> TRUE, truthy |-> TRUE, fields |-> FieldsEmpty]

fetch_product_details_from_api(resp, live) ==
    CASE resp = "raise"        -> NoData
      [] resp = "no_result"    -> NoData
      [] resp = "empty_result" -> [data |-> TRUE, truthy |-> FALSE, fields |-> <<>>]
      [] resp = "no_fields"    -> [data |-> TRUE, truthy |-> TRUE, fields |-> <<>>]
      [] resp = "result"       -> [data |-> TRUE, truthy |-> TRUE, fields |-> live]

FetchFailed_Never(current_api_data) == FALSE

\* `if not current_api_data`
FetchFailed(current_api_data) == ~current_api_data.truthy

Outcome_AnySuccess(n_successful, n_failed) ==
    IF n_successful > 0 THEN "successful" ELSE "failed"

\* `if failed_updates == 0`: the counter of the summary the record goes to
Outcome(n_successful, n_failed) ==
    IF n_failed = 0 THEN "successful" ELSE "failed"

\* the push loop runs over every queued field update
MoreUpdates(updates, done) == done < Len(updates)

(***************************************************************************)
(* api_client.py: the APIClient, its tokens and its requests.  A token is  *)
(* a number, the n-th one the Gateway issued to the process; `time` is     *)
(* time.time() in seconds.                                                 *)
(***************************************************************************)
\* time.time() when the process starts
Epoch == 100
\* the last second the clock of a process is followed to
MaxTime == 120
\* `self.access_token = None`, `self.refresh_token_value = None`,
\* `self.token_expires_at = None`
NoToken == 0
\* `time.time() + expires_in - 5  # Refresh 5 seconds early`
Early == 5
\* expires_in of the token responses; 10 is also `.get('expires_in', 10)`
ExpiresIn == {5, 10, 20}
\* answers of the Gateway to a token request: it raises (RequestException or
\* a status >= 400), the response has no result.access_token, or it has one
TokenAnswers == {"raise", "no_token", "token"}
\* answers of the Gateway to an authenticated request, as
\* fetch_product_details_from_api tells them apart
RequestAnswers == {"raise", "no_result", "result"}

\* the methods class APIClient defines
APIClientMethods == {"_is_token_expired", "_auto_refresh_token", "send_request",
                     "auth_token", "refresh_token", "get_face_users", "create_product"}
\* the same with the two operations FieldUpdater calls on its client
GatewayMethods == APIClientMethods \cup {"fetch_product", "update_product_field"}

\* a call of a method on the client: its answer, or AttributeError when the
\* client has no such method
MethodCall(c, method, answer) == IF method \in c.methods THEN answer ELSE "raise"

\* APIClient.__init__ (`started`: a process has made one).  `held`, `log`,
\* `refreshed`, `outcome` and `for_index` record the latest authenticated
\* call: the tokens before it, the requests it posted in order, the answer to
\* its refresh, how it ended and the loop index it was made for; `issued`
\* counts the tokens the Gateway issued
NoHeld == [access_token |-> NoToken, refresh_token_value |-> NoToken,
           client_id |-> "", expired |-> TRUE]
NoClient == [started |-> FALSE, methods |-> APIClientMethods, access_token |-> NoToken, refresh_token_value |-> NoToken,
             token_expires_at |-> NoToken, client_id |-> "", time |-> Epoch,
             issued |-> 0, held |-> NoHeld, log |-> <<>>, refreshed |-> "none",
             outcome |-> "none", for_index |-> 0]

\* requests.post: the endpoint, the grant type or method of the payload, and
\* the token of the Authorization header (NoToken: no such header)
Request(endpoint, method, bearer) ==
    [endpoint |-> endpoint, method |-> method, bearer |-> bearer]

\* `if not self.token_expires_at: return True`
\* `return time.time() >= self.token_expires_at`
_is_token_expired(c) ==
    IF c.token_expires_at = NoToken THEN TRUE ELSE c.time >= c.token_expires_at

\* the Gateway honours a token for expires_in seconds from its issue, which is
\* Early seconds longer than the client holds it to be fresh
Honoured(c, bearer) ==
    /\ bearer # NoToken
    /\ bearer = c.access_token
    /\ c.time < c.token_expires_at + Early

\* the answer to a request: the Gateway gives a result to an authenticated
\* request only under a token it honours (else its answer is an
\* expired-session error in the body)
Gateway(c, request, use_auth, answer) ==
    IF use_auth /\ answer = "result" /\ ~Honoured(c, request.bearer)
    THEN "no_result" ELSE answer

\* `if 'result' in response and 'access_token' in response['result']:` the
\* tokens, the client id and the expiry are stored
StoreTokens(c, answer, expires_in, client_id) ==
    IF answer = "token"
    THEN [c EXCEPT !.access_token = c.issued + 1,
                   !.refresh_token_value = c.issued + 1,
                   !.client_id = client_id,
                   !.token_expires_at = c.time + expires_in - Early,
                   !.issued = @ + 1]
    ELSE c

RECURSIVE send_request(_, _, _, _, _, _)
RECURSIVE refresh_token(_, _, _, _, _)

_auto_refresh_token_Never(c, answer, expires_in) == [client |-> c, outcome |-> "none"]

\* `if self._is_token_expired() and self.refresh_token_value and self.client_id:`
\* `self.refresh_token(self.refresh_token_value, self.client_id)`
_auto_refresh_token(c, answer, expires_in) ==
    IF _is_token_expired(c) /\ c.refresh_token_value # NoToken /\ c.client_id # ""
    THEN refresh_token(c, c.refresh_token_value, c.client_id, answer, expires_in)
    ELSE [client |-> c, outcome |-> "none"]

\* send_request: the refresh if the request is authenticated, then the post;
\* `refresh` is the answer a refresh would get (with its expires_in), `answer`
\* the one to the request itself.  An exception of the refresh leaves
\* send_request before the post.
send_request(c, endpoint, method, use_auth, refresh, answer) ==
    LET r == IF use_auth
             THEN _auto_refresh_token(c, refresh.answer, refresh.expires_in)
             ELSE [client |-> c, outcome |-> "none"]
    IN  IF r.outcome = "raise"
        THEN [client |-> [r.client EXCEPT !.refreshed = r.outcome], outcome |-> "raise"]
        ELSE LET bearer == IF use_auth THEN r.client.access_token ELSE NoToken
                 request == Request(endpoint, method, bearer)
                 sent == [r.client EXCEPT !.log = Append(@, request),
                                          !.refreshed = IF use_auth THEN r.outcome ELSE @]
             IN  [client |-> sent, outcome |-> Gateway(sent, request, use_auth, answer)]

\* refresh_token: `response = self.send_request("/auth", payload)`, use_auth
\* left at its default False, then the tokens of the response are stored
refresh_token(c, refresh_token_value, client_id, answer, expires_in) ==
    LET r == send_request(c, "/auth", "refresh_token", FALSE,
                          [answer |-> "none", expires_in |-> 0], answer)
    IN  IF r.outcome = "raise" THEN r
        ELSE [client |-> StoreTokens(r.client, r.outcome, expires_in, client_id),
              outcome |-> r.outcome]

\* auth_token: the password grant at the start of the process
auth_token(c, client_id, answer, expires_in) ==
    LET r == send_request(c, "/auth", "password", FALSE,
                          [answer |-> "none", expires_in |-> 0], answer)
    IN  IF r.outcome = "raise" THEN r
        ELSE [client |-> StoreTokens(r.client, r.outcome, expires_in, client_id),
              outcome |-> r.outcome]

\* the authenticated call FieldUpdater makes, `self.api_client.fetch_product`,
\* written as the authenticated calls of APIClient are (create_product,
\* get_face_users): no request without any token, else one authenticated
\* request
fetch_product(c, refresh, answer) ==
    IF MethodCall(c, "fetch_product", answer) # answer
       \/ (c.access_token = NoToken /\ c.refresh_token_value = NoToken)
    THEN [client |-> c, outcome |-> "raise"]
    ELSE send_request(c, "/urpc", "fetch_product", TRUE, refresh, answer)

(***************************************************************************)
(* scraper.py: scrape_and_save, a run in two steps around its sleep.       *)
(***************************************************************************)
\* the largest offset the cursor is followed to
MaxOffset == 4
\* the most items a contract_ref answer carries (its `limit`)
MaxResults == 2
\* contragent.proc_id of an item of the contract_ref result; NoProc: the item
\* has none (`if proc_id:` is false)
NoProc == 0
ContractItems == {NoProc, 7}
ContractLists == UNION {[1..n -> ContractItems] : n \in 0..MaxResults}
\* answers to the contract_ref call: requests.post or .json() raises, the
\* status is not 200, the body has no `result` list, or it has one
ContractAnswers ==
    {[kind |-> a, result |-> <<>>] : a \in {"raise", "status", "no_result"}}
    \cup {[kind |-> "list", result |-> l] : l \in ContractLists}
\* answers to the ref call, likewise; the list is of product ids
ProductLists == {<<>>, <<"p1">>, <<"p3">>, <<"p1", "p3">>, <<"p3", "p3">>}
ProductAnswers ==
    {[kind |-> a, result |-> <<>>] : a \in {"raise", "status", "no_result"}}
    \cup {[kind |-> "list", result |-> l] : l \in ProductLists}

\* `last` is the latest finished run: the offset it read, the answers it got
\* and whether it made the second call
NoRun == [ran |-> FALSE, current_offset |-> 0, contract |-> "none",
          contract_results |-> <<>>, second |-> "none"]
\* ScrapperState.get_or_create(id=1, defaults={'offset': 0}); no run under way
NoScrape == [pc |-> "idle", offset |-> 0, current_offset |-> 0,
             contract_result |-> <<>>, proc_ids |-> <<>>, last |-> NoRun]

\* `for item in contract_data['result']: ... if proc_id: proc_ids.append(proc_id)`
proc_ids_of(result) == SelectSeq(result, LAMBDA proc_id : proc_id # NoProc)

new_offset_ByProcIds(current_offset, contract_results) ==
    current_offset + Len(proc_ids_of(contract_results))

\* `new_offset = current_offset + len(contract_results)`
new_offset(current_offset, contract_results) == current_offset + Len(contract_results)

\* `first_call_success = contract_data is not None and 'result' in
\* contract_data and isinstance(contract_data['result'], list)`
first_call_success(contract) == contract.kind = "list"

\* the loop over the products of the second answer: a product with no row in
\* Product is created with the JSON it came with, one that has a row is skipped
RECURSIVE SaveProducts(_, _)
SaveProducts(table, found) ==
    IF found = <<>> THEN table
    ELSE LET p == Head(found)
             saved == IF table[p].state = "absent"
                      THEN [table EXCEPT ![p] = ScrapedListing[p]]
                      ELSE table
         IN  SaveProducts(saved, Tail(found))

(***************************************************************************)
(* Init and the actions.                                                   *)
(***************************************************************************)
\* no function is being called on its own
NoCall == [fn |-> "none"]
\* no create job is running
NoSync == [pc |-> "idle", login |-> "", products_per_batch |-> 0, products |-> <<>>,
           i |-> 0, results |-> NoResults, sent |-> <<>>]

Init ==
    /\ store = {}
    /\ listing = ScrapedListing
    /\ remote = <<>>
    /\ now = 0
    /\ pc = "idle"
    /\ login = ""
    /\ products_per_batch = 0
    /\ synced_products = <<>>
    /\ products = <<>>
    /\ i = 0
    /\ field_updates = <<>>
    /\ k = 0
    /\ successful_updates = 0
    /\ failed_updates = 0
    /\ field_errors = <<>>
    /\ results = NoResults
    /\ trace = <<>>
    /\ noop_done = {}
    /\ call = NoCall
    /\ sync = NoSync
    /\ client = NoClient
    /\ scraper = NoScrape

\* sync_products, one product: the create-procedure call returned a proc_id
\* and the product is marked as synced
SyncProduct(u, p) ==
    /\ pc = "idle"
    /\ listing[p].state = "json"
    /\ ~is_synced(store, u, p)
    /\ store' = mark_as_synced(store, u, p, ProcId(u, p), CreatedAt(u, p))
    /\ remote' = (ProcId(u, p) :> CreatedFields(p)) @@ remote
    /\ UNCHANGED <<listing, now, pc, i, results, trace, noop_done, call, sync, client, scraper>>
    /\ UNCHANGED batch_vars
    /\ UNCHANGED record_vars

\* a Product row disappears, or its json_data is overwritten with text that
\* does not parse
LoseListing(p, what) ==
    /\ pc = "idle"
    /\ p \in Losable
    /\ listing[p].state = "json"
    /\ Cardinality({q \in Products : listing[q].state # "json"}) < MaxLost
    /\ listing' = [listing EXCEPT ![p] = what]
    /\ UNCHANGED <<store, remote, now, pc, i, results, trace, noop_done, call, sync, client, scraper>>
    /\ UNCHANGED batch_vars
    /\ UNCHANGED record_vars

\* process_product_updates up to the loop: the queue is read
StartBatch(u, n, scan) ==
    /\ pc = "idle"
    /\ LET selected == SelectQuery(store, u, n, scan)
           loaded == products_with_data(selected)
       IN  /\ now + Len(loaded) <= MaxClock
           /\ login' = u
           /\ products_per_batch' = n
           /\ synced_products' = selected
           /\ products' = loaded
           /\ trace' = <<>>
           /\ IF loaded = <<>>
              THEN /\ results' = NoResults
                   /\ pc' = "done"
                   /\ i' = 0
              ELSE /\ results' = [NoResults EXCEPT !.total = Len(loaded)]
                   /\ pc' = "fetch"
                   /\ i' = 1
    /\ UNCHANGED <<store, listing, remote, now, noop_done, call, sync, client, scraper>>
    /\ UNCHANGED record_vars

NextRecord_Again == pc' = "fetch" /\ i' = i

\* `continue`, or the end of the loop body
NextRecord ==
    IF i < Len(products)
    THEN pc' = "fetch" /\ i' = i + 1
    ELSE pc' = "done" /\ i' = i

\* the loop body up to the first push: the fetch of the live fields
Fetch(resp, saved) ==
    /\ pc = "fetch"
    /\ now' = now + 1
    /\ LET synced_product == products[i]
           current_api_data ==
               fetch_product_details_from_api(resp, remote[synced_product.proc_id])
           api_fields == current_api_data.fields
           updates == FieldUpdates(api_fields, listing[synced_product.product_id].data)
           entry == TraceEntry(synced_product, resp, api_fields, updates, now')
       IN  IF FetchFailed(current_api_data)
           THEN /\ store' = mark_as_failed(store, synced_product, now', saved)
                /\ results' = [results EXCEPT !.failed = @ + 1,
                                              !.errors = Append(@, FetchError(synced_product))]
                /\ trace' = Append(trace, [entry EXCEPT !.queued = <<>>, !.counted = "failed"])
                /\ NextRecord
                /\ UNCHANGED noop_done
                /\ UNCHANGED record_vars
           ELSE IF MappingRaises(api_fields, listing[synced_product.product_id].data)
           THEN /\ trace' = Append(trace, [entry EXCEPT !.queued = <<>>, !.counted = "raised"])
                /\ pc' = "raised"
                /\ UNCHANGED <<store, results, i, noop_done>>
                /\ UNCHANGED record_vars
           ELSE IF updates = <<>>
           THEN /\ store' = mark_as_updated(store, synced_product, saved)
                /\ results' = [results EXCEPT !.successful = @ + 1]
                /\ trace' = Append(trace, [entry EXCEPT !.counted = "successful"])
                /\ noop_done' = noop_done \cup
                                    {<<synced_product.username, synced_product.product_id>>}
                /\ NextRecord
                /\ UNCHANGED record_vars
           ELSE /\ field_updates' = updates
                /\ k' = 1
                /\ successful_updates' = 0
                /\ failed_updates' = 0
                /\ field_errors' = <<>>
                /\ trace' = Append(trace, entry)
                /\ pc' = "push"
                /\ UNCHANGED <<store, results, i, noop_done>>
    /\ UNCHANGED <<listing, remote, call, sync, client, scraper>>
    /\ UNCHANGED batch_vars

\* one round of the push loop; after the last one, the record's outcome
Push(success, saved) ==
    /\ pc = "push"
    /\ LET synced_product == products[i]
           field_update == field_updates[k]
           n_successful == IF success THEN successful_updates + 1 ELSE successful_updates
           n_failed == IF success THEN failed_updates ELSE failed_updates + 1
           errs == IF success THEN field_errors
                   ELSE Append(field_errors,
                               field_update.field_id \o ": " \o PyStr(field_update.field_value))
           pushed == [trace EXCEPT ![Len(trace)].pushes = Append(@, success),
                                   ![Len(trace)].events = @ \o PushEvents]
       IN  /\ remote' = IF success
                        THEN [remote EXCEPT ![synced_product.proc_id][field_update.field_id].value
                                                = field_update.field_value]
                        ELSE remote
           /\ successful_updates' = n_successful
           /\ failed_updates' = n_failed
           /\ field_errors' = errs
           /\ IF MoreUpdates(field_updates, k)
              THEN /\ k' = k + 1
                   /\ trace' = pushed
                   /\ UNCHANGED <<store, results, pc, i>>
              ELSE /\ k' = k
                   /\ IF Outcome(n_successful, n_failed) = "successful"
                      THEN /\ results' = [results EXCEPT !.successful = @ + 1]
                           /\ store' = mark_as_updated(store, synced_product, saved)
                           /\ trace' = EndOfBody([pushed EXCEPT ![Len(trace)].counted
                                                                    = "successful"],
                                                  i, products)
                      ELSE /\ results' = [results EXCEPT
                                  !.failed = @ + 1,
                                  !.errors = Append(@, PartialError(synced_product, n_failed,
                                                                    Len(field_updates), errs))]
                           /\ store' = mark_as_failed(store, synced_product, now, saved)
                           /\ trace' = EndOfBody([pushed EXCEPT ![Len(trace)].counted
                                                                    = "failed"],
                                                  i, products)
                   /\ NextRecord
    /\ UNCHANGED <<listing, now, field_updates, noop_done, call, sync, client, scraper>>
    /\ UNCHANGED batch_vars

\* process_product_updates returns its summary; the process ends
Return ==
    /\ pc = "done"
    /\ pc' = "idle"
    /\ synced_products' = <<>>
    /\ products' = <<>>
    /\ i' = 0
    /\ field_updates' = <<>>
    /\ k' = 0
    /\ successful_updates' = 0
    /\ failed_updates' = 0
    /\ field_errors' = <<>>
    /\ results' = NoResults
    /\ trace' = <<>>
    /\ login' = ""
    /\ products_per_batch' = 0
    /\ UNCHANGED <<store, listing, remote, now, noop_done, call, sync, client, scraper>>

\* the exception leaves process_product_updates and start_field_updates: the
\* process ends without a summary
Propagate ==
    /\ pc = "raised"
    /\ pc' = "idle"
    /\ synced_products' = <<>>
    /\ products' = <<>>
    /\ i' = 0
    /\ results' = NoResults
    /\ trace' = <<>>
    /\ login' = ""
    /\ products_per_batch' = 0
    /\ UNCHANGED <<store, listing, remote, now, noop_done, call, sync, client, scraper>>
    /\ UNCHANGED record_vars

\* a batch run for account u, with any batch size and any scan order
RunBatch(u) ==
    \E n \in BatchSizes : \E scan \in Scans(Where(store, u)) : StartBatch(u, n, scan)

Next ==
    \/ \E a \in Accounts : SyncProduct(a[1], a[2])
    \/ \E p \in Losable, what \in {ABSENT, MALFORMED} : LoseListing(p, what)
    \/ \E u \in Users : RunBatch(u)
    \/ \E resp \in FetchOutcomes : Fetch(resp, TRUE)
    \/ \E success \in BOOLEAN : Push(success, TRUE)
    \/ Return
    \/ Propagate

Spec == Init /\ [][Next]_vars

\* batch runs recur for every account, and a started batch runs to its end
FairSpec ==
    /\ Spec
    /\ \A u \in Users : SF_vars(RunBatch(u))
    /\ WF_vars(\E resp \in FetchOutcomes : Fetch(resp, TRUE))
    /\ WF_vars(\E success \in BOOLEAN : Push(success, TRUE))
    /\ WF_vars(Return)
    /\ WF_vars(Propagate)

(***************************************************************************)
(* product_sync.py: the create job, sync_products.                         *)
(***************************************************************************)
\* answers of the create-procedure call, as create_product_via_api and
\* sync_products tell them apart: the client raises, the response has an
\* "error" key, the response has no result.proc_id, the response carries one
CreateOutcomes == {"raise", "error", "no_proc_id", "proc_id"}

\* `proc_id = None`, unless the response carries result.proc_id
NoProcId == 0
ReceivedProcId(resp, u, p) == IF resp = "proc_id" THEN ProcId(u, p) ELSE NoProcId

MarksSynced_Always(api_error, proc_id) == ~api_error

\* `"error" not in api_result` and `proc_id is not None`
MarksSynced(api_error, proc_id) == ~api_error /\ proc_id # NoProcId

NotSynced_Any(table, u) == {p \in Products : listing[p].state = "json"}

\* fetch_products_from_db: the Product rows that parse and are not synced by
\* the user
NotSynced(table, u) ==
    {p \in Products : listing[p].state = "json" /\ ~is_synced(table, u, p)}

SyncError(p, text) == [product_id |-> p, error |-> text]

\* sync_products up to the loop: the first products_per_batch rows of the
\* scan of Product that are not synced
StartSync(u, n, scan) ==
    /\ sync.pc = "idle"
    /\ LET chosen == Limit(scan, n) IN
       sync' = IF chosen = <<>>
               THEN [NoSync EXCEPT !.pc = "done", !.login = u, !.products_per_batch = n]
               ELSE [pc |-> "create", login |-> u, products_per_batch |-> n,
                     products |-> chosen, i |-> 1,
                     results |-> [NoResults EXCEPT !.total = Len(chosen)],
                     sent |-> <<>>]
    /\ UNCHANGED <<store, listing, remote, now, pc, i, results, trace, noop_done, call, client, scraper>>
    /\ UNCHANGED batch_vars
    /\ UNCHANGED record_vars

\* one round of the loop of sync_products: the create-procedure call for a
\* product and what follows from its answer
CreateOne(resp) ==
    /\ sync.pc = "create"
    /\ LET u == sync.login
           p == sync.products[sync.i]
           api_error == resp \in {"raise", "error"}
           proc_id == ReceivedProcId(resp, u, p)
           marks == MarksSynced(api_error, proc_id)
           error == IF api_error THEN <<SyncError(p, "create failed")>>
                    ELSE IF proc_id = NoProcId
                    THEN <<SyncError(p, "No proc_id in API response")>>
                    ELSE <<>>
       IN  /\ store' = IF marks
                       THEN mark_as_synced(store, u, p, proc_id, CreatedAt(u, p))
                       ELSE store
           /\ remote' = IF resp = "proc_id"
                        THEN (ProcId(u, p) :> CreatedFields(p)) @@ remote
                        ELSE remote
           /\ sync' = [sync EXCEPT
                          !.results = [@ EXCEPT
                              !.successful = IF error = <<>> THEN @ + 1 ELSE @,
                              !.failed = IF error = <<>> THEN @ ELSE @ + 1,
                              !.errors = @ \o error],
                          !.sent = Append(@, [product_id |-> p, resp |-> resp]),
                          !.i = IF sync.i < Len(sync.products) THEN @ + 1 ELSE @,
                          !.pc = IF sync.i < Len(sync.products) THEN "create" ELSE "done"]
    /\ UNCHANGED <<listing, now, pc, i, results, trace, noop_done, call, client, scraper>>
    /\ UNCHANGED batch_vars
    /\ UNCHANGED record_vars

\* sync_products returns its summary; the process ends
EndSync ==
    /\ sync.pc = "done"
    /\ sync' = NoSync
    /\ UNCHANGED <<store, listing, remote, now, pc, i, results, trace, noop_done, call, client, scraper>>
    /\ UNCHANGED batch_vars
    /\ UNCHANGED record_vars

RunSync(u) ==
    \E n \in BatchSizes : \E scan \in Scans(NotSynced(store, u)) : StartSync(u, n, scan)

SyncNext ==
    \/ \E u \in Users : RunSync(u)
    \/ \E resp \in CreateOutcomes : CreateOne(resp)
    \/ EndSync
    \/ \E p \in Losable, what \in {ABSENT, MALFORMED} : LoseListing(p, what)

SyncSpec == Init /\ [][SyncNext]_vars

(***************************************************************************)
(* The updater with process kills: the process can be terminated at any    *)
(* point of a record's reconcile; a push in flight at that moment may or   *)
(* may not have been applied by the marketplace.                           *)
(***************************************************************************)
Kill(applied) ==
    /\ pc \in {"fetch", "push"}
    /\ applied => pc = "push"
    /\ remote' = IF applied
                 THEN [remote EXCEPT ![products[i].proc_id][field_updates[k].field_id].value
                                         = field_updates[k].field_value]
                 ELSE remote
    /\ pc' = "idle"
    /\ synced_products' = <<>>
    /\ products' = <<>>
    /\ i' = 0
    /\ field_updates' = <<>>
    /\ k' = 0
    /\ successful_updates' = 0
    /\ failed_updates' = 0
    /\ field_errors' = <<>>
    /\ results' = NoResults
    /\ trace' = <<>>
    /\ login' = ""
    /\ products_per_batch' = 0
    /\ UNCHANGED <<store, listing, now, noop_done, call, sync, client, scraper>>

KillNext ==
    \/ Next
    \/ \E applied \in BOOLEAN : Kill(applied)

KillSpec == Init /\ [][KillNext]_vars

(***************************************************************************)
(* The functions of the updater called on their own, once, on arguments    *)
(* drawn from every kind of JSON value, every descriptor type and every    *)
(* kind of field name (static, renamed, transformed, plain).               *)
(***************************************************************************)
LocalValues == {None, B(TRUE), B(FALSE), I(0), I(12), F(125), F(120),
                S(""), S("12"), S("abc"), S("Yes"),
                S("TRUE"), S("1"), S("on"),
                L(<<>>), L(<<S("img-77")>>), L(<<S("img-77"), S("img-78")>>),
                D(<<>>), D(<<<<"main", S("img-1")>>>>), BigInt}

FieldTypes == {"number", "float", "int", "bool", "date", "char", "text", ""}

FieldNames == {"regions", "license", "photo", "producer", "desc",
               "price", "best_before", "title", "weight"}

LocalKeys == {"images", "vendor", "properties", "photo", "producer",
              "price", "best_before", "title", "weight", "license"}

\* local listings: empty, or one key with one value
LocalDatas == {<<>>} \cup {key :> value : key \in LocalKeys, value \in LocalValues}

\* values a live field can have
ApiValues == {None, L(<<>>), S(""), D(<<>>), S("old"), L(<<S("old")>>), B(FALSE), I(0)}

SelectTypes == {"number", "bool", "char"}

CallRecord(fn, field_name, field_info, local_data, local_value, result) ==
    [fn |-> fn, field_name |-> field_name, field_info |-> field_info,
     local_data |-> local_data, local_value |-> local_value, result |-> result]

program_vars == <<store, listing, remote, now, pc, login, products_per_batch,
                  synced_products, products, i, field_updates, k,
                  successful_updates, failed_updates, field_errors, results, trace,
                  noop_done, sync, client, scraper>>

\* _convert_value_for_api(local_value, field_info)
CallConvert(local_value, field_type) ==
    /\ call = NoCall
    /\ LET field_info == Descriptor(TRUE, None, field_type) IN
       call' = CallRecord("_convert_value_for_api", "", field_info, <<>>, local_value,
                          _convert_value_for_api(local_value, field_info))
    /\ UNCHANGED program_vars

\* _map_field_value(api_field_name, local_data, field_info)
CallMap(api_field_name, local_data, field_type) ==
    /\ call = NoCall
    /\ LET field_info == Descriptor(TRUE, None, field_type) IN
       call' = CallRecord("_map_field_value", api_field_name, field_info, local_data, None,
                          _map_field_value(api_field_name, local_data, field_info))
    /\ UNCHANGED program_vars

\* the loop of process_product_updates that builds field_updates, on a live
\* field set of one field
CallSelect(field_name, field_info, local_data) ==
    /\ call = NoCall
    /\ LET api_fields == (field_name :> field_info)
           raised == MappingRaises(api_fields, local_data)
       IN  call' = CallRecord("field_updates", field_name, field_info, local_data, None,
                      [raised |-> raised,
                       queued |-> IF raised THEN <<>>
                                  ELSE FieldUpdatesFrom(<<field_name>>, api_fields, local_data)])
    /\ UNCHANGED program_vars

\* a call is made on arguments of the three kinds
AnyCall ==
    \/ \E local_value \in LocalValues, field_type \in FieldTypes :
          CallConvert(local_value, field_type)
    \/ \E api_field_name \in FieldNames, local_data \in LocalDatas, field_type \in FieldTypes :
          CallMap(api_field_name, local_data, field_type)
    \/ \E field_name \in FieldNames, marker \in BOOLEAN, api_value \in ApiValues,
          field_type \in SelectTypes, local_data \in LocalDatas :
          CallSelect(field_name, Descriptor(marker, api_value, field_type), local_data)

MapNext == call = NoCall /\ AnyCall

MapSpec == Init /\ [][MapNext]_vars

(***************************************************************************)
(* The updater with its APIClient: one process authenticates, runs one     *)
(* batch for u1, whose fetches go through fetch_product, and ends.         *)
(***************************************************************************)
engine_vars == <<store, listing, remote, now, pc, login, products_per_batch,
                 synced_products, products, i, field_updates, k, successful_updates,
                 failed_updates, field_errors, results, trace, noop_done, sync, call,
                 scraper>>

\* FieldUpdater.__init__: APIClient(...) and auth_token; an exception of
\* auth_token ends the process before any batch
Authenticate(answer, expires_in) ==
    /\ pc = "idle"
    /\ ~client.started
    /\ LET r == auth_token([NoClient EXCEPT !.methods = GatewayMethods], "af36f6cbc",
                           answer, expires_in)
       IN  /\ r.outcome # "raise"
           /\ client' = [r.client EXCEPT !.log = <<>>, !.started = TRUE]
    /\ UNCHANGED engine_vars

\* a second passes before the next fetch
Tick ==
    /\ pc = "fetch"
    /\ client.for_index # i
    /\ client.time < MaxTime
    /\ client' = [client EXCEPT !.time = @ + 1]
    /\ UNCHANGED engine_vars

\* `result = self.api_client.fetch_product(str(proc_id))` for the record at
\* index i
CallFetchProduct(refresh, answer) ==
    /\ pc = "fetch"
    /\ client.for_index # i
    /\ LET held == [access_token |-> client.access_token,
                    refresh_token_value |-> client.refresh_token_value,
                    client_id |-> client.client_id,
                    expired |-> _is_token_expired(client)]
           r == fetch_product([client EXCEPT !.log = <<>>, !.refreshed = "none",
                                             !.held = held],
                              refresh, answer)
       IN  client' = [r.client EXCEPT !.outcome = r.outcome, !.for_index = i]
    /\ UNCHANGED engine_vars

\* the rest of fetch_product_details_from_api and of the loop body, on the
\* outcome of the call
FetchThroughClient ==
    /\ client.for_index = i
    /\ Fetch(client.outcome, TRUE)

\* the process ends
Exit ==
    /\ pc = "idle"
    /\ client.started
    /\ client' = NoClient
    /\ UNCHANGED engine_vars

AuthNext ==
    \/ SyncProduct("u1", "p3")
    \/ \E answer \in TokenAnswers, expires_in \in ExpiresIn :
           Authenticate(answer, expires_in)
    \/ client.started /\ client.for_index = 0 /\ RunBatch("u1")
    \/ Tick
    \/ \E answer \in TokenAnswers, expires_in \in ExpiresIn, reply \in RequestAnswers :
           CallFetchProduct([answer |-> answer, expires_in |-> expires_in], reply)
    \/ FetchThroughClient
    \/ Return
    \/ Exit

AuthSpec == Init /\ [][AuthNext]_vars

(***************************************************************************)
(* The scraper on its own: runs of scrape_and_save, one after another,     *)
(* over a Product table that loses rows in between.                        *)
(***************************************************************************)
RunEnded(current_offset, contract, second) ==
    [ran |-> TRUE, current_offset |-> current_offset, contract |-> contract.kind,
     contract_results |-> contract.result, second |-> second]

\* scrape_and_save up to the sleep: the offset is read, the contract_ref call
\* is made; the run ends here if the call raises, if its status is not 200,
\* or if no proc_id was found
ScrapeContracts(contract) ==
    /\ scraper.pc = "idle"
    /\ scraper.offset + Len(contract.result) <= MaxOffset
    /\ LET current_offset == scraper.offset
           proc_ids == proc_ids_of(contract.result)
       IN  scraper' =
               IF contract.kind = "list" /\ proc_ids # <<>>
               THEN [scraper EXCEPT !.pc = "sleeping",
                                    !.current_offset = current_offset,
                                    !.contract_result = contract.result,
                                    !.proc_ids = proc_ids]
               ELSE [scraper EXCEPT !.last = RunEnded(current_offset, contract, "none")]
    /\ UNCHANGED <<store, listing, remote, now, pc, i, results, trace, noop_done, call,
                   sync, client>>
    /\ UNCHANGED batch_vars
    /\ UNCHANGED record_vars

\* scrape_and_save after the sleep: the ref call, the new products saved, and
\* `if first_call_success and second_call_success:` the offset written
ScrapeProducts(answer) ==
    /\ scraper.pc = "sleeping"
    /\ LET contract == [kind |-> "list", result |-> scraper.contract_result]
           second_call_success == answer.kind = "list"
       IN  /\ listing' = IF second_call_success
                         THEN SaveProducts(listing, answer.result)
                         ELSE listing
           /\ scraper' =
                 [NoScrape EXCEPT
                     !.offset = IF first_call_success(contract) /\ second_call_success
                                THEN new_offset(scraper.current_offset,
                                                scraper.contract_result)
                                ELSE scraper.offset,
                     !.last = RunEnded(scraper.current_offset, contract, answer.kind)]
    /\ UNCHANGED <<store, remote, now, pc, i, results, trace, noop_done, call, sync, client>>
    /\ UNCHANGED batch_vars
    /\ UNCHANGED record_vars

ScrapeNext ==
    \/ \E contract \in ContractAnswers : ScrapeContracts(contract)
    \/ \E answer \in ProductAnswers : ScrapeProducts(answer)
    \/ \E p \in Losable : LoseListing(p, ABSENT)

ScrapeSpec == Init /\ [][ScrapeNext]_vars

(***************************************************************************)
(* The updater with write-backs that can fail: save() of mark_as_updated   *)
(* or mark_as_failed raises, and the exception is swallowed.               *)
(***************************************************************************)
FaultNext ==
    \/ \E a \in Accounts : SyncProduct(a[1], a[2])
    \/ \E p \in Losable, what \in {ABSENT, MALFORMED} : LoseListing(p, what)
    \/ \E u \in Users : RunBatch(u)
    \/ \E resp \in FetchOutcomes, saved \in BOOLEAN : Fetch(resp, saved)
    \/ \E success \in BOOLEAN, saved \in BOOLEAN : Push(success, saved)
    \/ Return
    \/ Propagate

FaultSpec == Init /\ [][FaultNext]_vars

(***************************************************************************)
(* The updater over its client, against a marketplace that answers every   *)
(* request it receives favourably: a fetch or a push fails only when the   *)
(* client cannot make the call.  The processes are built with the          *)
(* repository's APIClient or with a client that has the two operations.    *)
(***************************************************************************)
\* start_field_updates builds the FieldUpdater, and with it the client, of the
\* processes to come
Deploy(methods) ==
    /\ pc = "idle"
    /\ client.methods # methods
    /\ client' = [client EXCEPT !.methods = methods]
    /\ UNCHANGED engine_vars

\* `self.api_client.fetch_product(str(proc_id))` and what follows
FetchByClient == Fetch(MethodCall(client, "fetch_product", "result"), TRUE)

\* `self.api_client.update_product_field(proc_id, field_id, field_value)`,
\* under `except Exception: return False`, and what follows
PushByClient == Push(MethodCall(client, "update_product_field", "ok") = "ok", TRUE)

GatewayNext ==
    \/ \E a \in Accounts : SyncProduct(a[1], a[2])
    \/ \E methods \in {APIClientMethods, GatewayMethods} : Deploy(methods)
    \/ \E u \in Users : RunBatch(u)
    \/ FetchByClient
    \/ PushByClient
    \/ Return
    \/ Propagate

GatewaySpec == Init /\ [][GatewayNext]_vars

(***************************************************************************)
(* Properties.                                                             *)
(***************************************************************************)
Entries == {trace[j] : j \in 1..Len(trace)}

RowFor(e) == CHOOSE r \in store : r.username = e.username /\ r.product_id = e.product_id

Completed(e) == e.counted # "none"
SomePushFailed(e) == \E m \in 1..Len(e.pushes) : ~e.pushes[m]
SomePushSucceeded(e) == \E m \in 1..Len(e.pushes) : e.pushes[m]
EveryPushSucceeded(e) ==
    /\ Len(e.pushes) = Len(e.queued)
    /\ \A m \in 1..Len(e.pushes) : e.pushes[m]
ErrorsFor(e) == {j \in 1..Len(results.errors) :
                    /\ results.errors[j].product_id = e.product_id
                    /\ results.errors[j].proc_id = e.proc_id}
CountedAs(what) == Cardinality({j \in 1..Len(trace) : trace[j].counted = what})

\* C1: is_fields_updated of a record is true after a reconcile pass only if its
\* fetch succeeded and every set-field push queued in the pass was issued and
\* succeeded (or none was queued): a record of the running pass whose fetch
\* failed, one of whose pushes failed, or with a queued push still to issue,
\* has is_fields_updated = false in the table.
C1_UpdatedOnlyAfterFullSuccess ==
    \A e \in Entries :
        (\/ e.fetch \in {"raise", "no_result", "empty_result"}
         \/ SomePushFailed(e)
         \/ Len(e.pushes) < Len(e.queued))
        => ~RowFor(e).is_fields_updated

C1_Witness ==
    \E e \in Entries :
        Completed(e) /\ SomePushFailed(e) /\ SomePushSucceeded(e)
        /\ ~RowFor(e).is_fields_updated

\* C2: in every reachable state of the table, a row with is_fields_updated =
\* true has last_attempt_time = NULL.
C2_UpdatedImpliesNoAttemptTime ==
    \A r \in store : r.is_fields_updated => r.last_attempt_time = NULL

C2_Witness ==
    \E e \in Entries :
        e.was # NULL /\ RowFor(e).is_fields_updated /\ RowFor(e).last_attempt_time = NULL

\* C3: a record one of whose queued pushes failed ends the pass counted as
\* failed, with is_fields_updated = false and last_attempt_time = the time of
\* the pass, whatever the other pushes did, and every queued push was issued;
\* until then the push loop is still running on it.
C3_PartialFailure ==
    \A e \in Entries :
        SomePushFailed(e) =>
            IF Completed(e)
            THEN /\ e.counted = "failed"
                 /\ RowFor(e).is_fields_updated = FALSE
                 /\ RowFor(e).last_attempt_time = At(e.at)
                 /\ e.was # At(e.at)
                 /\ Len(e.pushes) = Len(e.queued)
                 /\ Cardinality(ErrorsFor(e)) = 1
            ELSE pc = "push" /\ e = trace[Len(trace)] /\ k = Len(e.pushes) + 1

C3_Witness ==
    \E e \in Entries :
        /\ Completed(e)
        /\ e.pushes = <<TRUE, FALSE, TRUE>>
        /\ e.counted = "failed"
        /\ RowFor(e).last_attempt_time = At(e.at)

\* C4: a record whose queued pushes (at least one) all succeeded ends the pass
\* with is_fields_updated = true and last_attempt_time = NULL, also when it
\* was loaded with a last_attempt_time, and is counted in results.successful.
C4_FullSuccess ==
    /\ \A e \in Entries :
          (e.queued # <<>> /\ EveryPushSucceeded(e)) =>
              /\ e.counted = "successful"
              /\ RowFor(e).is_fields_updated
              /\ RowFor(e).last_attempt_time = NULL
              /\ ErrorsFor(e) = {}
    /\ results.successful = CountedAs("successful")

C4_Witness ==
    \E e \in Entries :
        /\ Len(e.queued) > 1 /\ EveryPushSucceeded(e)
        /\ e.was # NULL
        /\ RowFor(e).is_fields_updated
        /\ results.successful >= 1

\* C5: when the fetch of a record raises or its response has no "result", no
\* set-field call is issued for the record, its is_fields_updated stays
\* false, its last_attempt_time is the time of the pass, and it is counted as
\* failed with exactly one error entry.
C5_FetchFailure ==
    /\ \A e \in Entries :
          e.fetch \in {"raise", "no_result"} =>
              /\ e.queued = <<>> /\ e.pushes = <<>>
              /\ e.counted = "failed"
              /\ RowFor(e).is_fields_updated = FALSE
              /\ RowFor(e).last_attempt_time = At(e.at)
              /\ e.was # At(e.at)
              /\ Cardinality(ErrorsFor(e)) = 1
              /\ \A j \in ErrorsFor(e) :
                    results.errors[j].error = "Failed to fetch product details from API"
    /\ results.failed = CountedAs("failed")
    /\ Len(results.errors) = results.failed

C5_Witness ==
    \E e \in Entries :
        /\ e.fetch = "no_result"
        /\ e.live = <<>>
        /\ RowFor(e).last_attempt_time = At(e.at)
        /\ results.failed >= 1

\* C6 (the claim as the spec states it): at the end of a batch, every selected
\* record whose listing is missing or does not parse has been recorded as a
\* failed attempt: last_attempt_time set by this batch, is_fields_updated
\* unchanged, an error entry in the summary.
C6_MissingListingRecordedFailed ==
    pc = "done" =>
        \A j \in 1..Len(synced_products) :
            LET sp == synced_products[j] IN
            ~Loadable(sp) =>
                /\ RowFor(sp).last_attempt_time # NULL
                /\ RowFor(sp).last_attempt_time # sp.last_attempt_time
                /\ RowFor(sp).is_fields_updated = FALSE
                /\ \E m \in 1..Len(results.errors) :
                      results.errors[m].product_id = sp.product_id

\* a row sorts strictly before another in the retry queue
SortsBefore(q, r) ==
    \/ q.last_attempt_time = NULL /\ r.last_attempt_time # NULL
    \/ /\ q.last_attempt_time # NULL /\ r.last_attempt_time # NULL
       /\ q.last_attempt_time[1] < r.last_attempt_time[1]

Selected == {synced_products[j] : j \in 1..Len(synced_products)}

\* C7: the queue query returns at most products_per_batch rows, each once,
\* all of the given username and with is_fields_updated = false, rows with
\* last_attempt_time NULL before rows with a time and the latter in ascending
\* order; and, while the table is as the query read it, the rows are rows of
\* the table, a pending row is omitted only when the batch is full, and no
\* omitted pending row sorts before a returned one.
C7_SelectBatchOrdered ==
    pc # "idle" =>
        /\ Len(synced_products) <= products_per_batch
        /\ Cardinality(Selected) = Len(synced_products)
        /\ \A r \in Selected : r.username = login /\ r.is_fields_updated = FALSE
        /\ \A a, b \in 1..Len(synced_products) :
              a < b => ~SortsBefore(synced_products[b], synced_products[a])
        /\ trace = <<>> =>
              /\ Selected \subseteq store
              /\ \A q \in store :
                    (q.username = login /\ ~q.is_fields_updated /\ q \notin Selected) =>
                        /\ Len(synced_products) = products_per_batch
                        /\ \A r \in Selected : ~SortsBefore(q, r)

C7_Witness ==
    /\ pc # "idle" /\ trace = <<>>
    /\ Len(synced_products) = 2
    /\ synced_products[1].last_attempt_time = NULL
    /\ synced_products[2].last_attempt_time # NULL
    /\ \E q \in store :
          /\ q.username = login /\ ~q.is_fields_updated /\ q \notin Selected
          /\ SortsBefore(synced_products[2], q)

\* the record of an account is pending and its listing can be loaded
Pending(a) ==
    \E r \in store : /\ r.username = a[1] /\ r.product_id = a[2]
                     /\ ~r.is_fields_updated /\ Loadable(r)

\* the loop is about to fetch the live fields of the record of an account
AtFetch(a) ==
    /\ pc = "fetch"
    /\ products[i].username = a[1]
    /\ products[i].product_id = a[2]

\* C8 (the claim as the spec states it): with batch runs recurring, every
\* pending record (whose own listing can be loaded) gets its live fields
\* fetched again and again: none is starved by the other records. Stated for
\* the runs that stay below the bound of the clock.
C8_NoStarvation ==
    \A a \in Accounts :
        (<>[](now < MaxClock)) => [](Pending(a) => <>(AtFetch(a) \/ ~Pending(a)))

\* position of a row in an ordering of the pending rows
PositionIn(q, r) == CHOOSE j \in 1..Len(q) : q[j] = r

HasLaterEntry(e, o) ==
    \E a, b \in 1..Len(trace) :
        /\ a < b /\ trace[a] = e
        /\ trace[b].username = o.username /\ trace[b].product_id = o.product_id

\* C9: once a record is counted as failed it is at the back of the retry
\* queue: in every order the queue query can produce, it comes after every
\* other pending row of the account, except the rows the same batch attempted
\* after it.
C9_FailedGoesToBack ==
    \A e \in Entries :
        e.counted = "failed" =>
            /\ RowFor(e) \in Where(store, e.username)
            /\ \A scan \in Scans(Where(store, e.username)) :
                  LET q == OrderBy(scan) IN
                  \A o \in Where(store, e.username) :
                      (o # RowFor(e) /\ ~HasLaterEntry(e, o)) =>
                          PositionIn(q, o) < PositionIn(q, RowFor(e))

C9_Witness ==
    \E e \in Entries :
        /\ e.counted = "failed"
        /\ \E o1, o2 \in Where(store, e.username) :
              /\ o1 # RowFor(e) /\ o2 # RowFor(e)
              /\ o1.last_attempt_time = NULL
              /\ o2.last_attempt_time # NULL
              /\ ~HasLaterEntry(e, o1) /\ ~HasLaterEntry(e, o2)

\* no candidate field of the live field set both needs filling and has a
\* mapped value
NothingToFill(api_fields, local_product_data) ==
    \A field_name \in DOMAIN api_fields :
        ~(/\ IsCandidate(field_name, api_fields[field_name])
          /\ needs_update(field_name, api_fields[field_name])
          /\ _map_field_value(field_name, local_product_data, api_fields[field_name]) # None)

\* C10: when the live field set is fetched and no field both needs filling
\* and has a mapped value, no set-field call is issued, the row gets
\* is_fields_updated = true and last_attempt_time = NULL, and the record is
\* counted as successful.
C10_NoOpUpdated ==
    \A e \in Entries :
        (e.fetch \in {"result", "no_fields"}
         /\ NothingToFill(e.live, listing[e.product_id].data)) =>
            /\ e.queued = <<>> /\ e.pushes = <<>>
            /\ e.counted = "successful"
            /\ RowFor(e).is_fields_updated
            /\ RowFor(e).last_attempt_time = NULL
            /\ ErrorsFor(e) = {}
            /\ results.successful >= 1

C10_Witness ==
    \E e \in Entries :
        /\ e.fetch = "result"
        /\ \E field_name \in DOMAIN e.live : needs_update(field_name, e.live[field_name])
        /\ e.queued = <<>>
        /\ e.counted = "successful"
        /\ RowFor(e).is_fields_updated

\* the loop is at the record of an account: its fetch or one of its pushes is next
AtRecord(a) ==
    /\ pc \in {"fetch", "push"}
    /\ products[i].username = a[1]
    /\ products[i].product_id = a[2]

EntriesOf(a) == {j \in 1..Len(trace) :
                    trace[j].username = a[1] /\ trace[j].product_id = a[2]}

\* C11: a record that a pass found with nothing to update is not reconciled a
\* second time: from then on its row stays is_fields_updated = true with
\* last_attempt_time = NULL, no later batch selects it, the loop never stands
\* at it again, and the only Gateway call ever recorded for it in a batch is
\* the fetch of that pass, with no push.
C11_NoOpIdempotent ==
    \A a \in noop_done :
        /\ \E r \in store :
              /\ r.username = a[1] /\ r.product_id = a[2]
              /\ r.is_fields_updated /\ r.last_attempt_time = NULL
        /\ ~AtRecord(a)
        /\ Cardinality(EntriesOf(a)) <= 1
        /\ \A j \in EntriesOf(a) :
              trace[j].pushes = <<>> /\ trace[j].queued = <<>> /\ trace[j].counted = "successful"
        /\ (\E r \in Selected : r.username = a[1] /\ r.product_id = a[2])
              => EntriesOf(a) # {}

\* a later batch of the same account is running without the record
C11_Witness ==
    \E a \in noop_done :
        /\ pc = "push" /\ login = a[1]
        /\ EntriesOf(a) = {}
        /\ \E r \in store : r.username = a[1] /\ r.product_id = a[2] /\ r.is_fields_updated

\* the call under observation is the building of field_updates and it returned
Selecting == call.fn = "field_updates" /\ ~call.result.raised

\* a live value that is neither null nor empty
Present(api_value) == api_value \notin {None, L(<<>>), S(""), D(<<>>)}

\* C12: for a live field whose value is neither null nor empty, no field
\* update is queued (so no set-field call is issued), whatever the field name,
\* the managed-field marker, the local listing data and the tables contain.
C12_PresentNeverOverwritten ==
    (call.fn = "field_updates" /\ Present(call.field_info.value))
        => call.result.queued = <<>>

\* a present live value, a different local value mapped for it, nothing queued
C12_Witness ==
    /\ Selecting
    /\ call.field_name = "title" /\ call.field_info.field
    /\ call.field_info.value = S("old")
    /\ _map_field_value("title", call.local_data, call.field_info) = S("abc")
    /\ call.result.queued = <<>>

\* C17 (the claim as the spec states it): _convert_value_for_api returns a
\* value for every kind of local value and every descriptor type, and
\* _map_field_value returns a value or None: neither raises.
C17_CoercionTotal ==
    call.fn \in {"_convert_value_for_api", "_map_field_value"} => ~IsRaise(call.result)

\* the one update the loop queues for a field
OneUpdate(field_name, local_data, field_info) ==
    <<[field_id |-> field_name,
       field_value |-> _map_field_value(field_name, local_data, field_info)]>>

\* C19: a field is queued only if its managed-field marker is set or its name
\* is in static_values or in field_mappings; and a field that is one of the
\* three, needs filling and has a mapped value is queued, marker or not.
C19_CandidateRule ==
    Selecting =>
        LET n == call.field_name
            info == call.field_info
            one_of_three == \/ info.field
                            \/ n \in {"regions", "delivery_period", "delivery_unit",
                                      "license", "guarantee", "guarantee_unit"}
                            \/ n \in {"desc", "photo", "year", "producer", "brand"}
        IN  /\ call.result.queued # <<>> => one_of_three
            /\ (/\ one_of_three
                /\ needs_update(n, info)
                /\ _map_field_value(n, call.local_data, info) # None)
                  => call.result.queued = OneUpdate(n, call.local_data, info)

\* a renamed field without the marker is queued
C19_Witness ==
    /\ Selecting
    /\ call.field_name = "producer" /\ ~call.field_info.field
    /\ call.field_info.value = S("")
    /\ call.result.queued = <<[field_id |-> "producer", field_value |-> S("abc")]>>

\* C20: a candidate with a mapped value is queued exactly when its live value
\* is null, or an empty list on `photo` or `regions`, or the empty string on
\* `producer`; an empty list or an empty string on another field is not filled.
C20_NeedsFillingPolicy ==
    Selecting =>
        LET n == call.field_name
            info == call.field_info
            v == info.value
            policy == \/ v = None
                      \/ v = L(<<>>) /\ n \in {"photo", "regions"}
                      \/ v = S("") /\ n = "producer"
        IN  /\ call.result.queued # <<>> => policy
            /\ (/\ policy
                /\ IsCandidate(n, info)
                /\ _map_field_value(n, call.local_data, info) # None)
                  => call.result.queued = OneUpdate(n, call.local_data, info)

\* an empty string on a field other than `producer`, with a local value: not filled
C20_Witness ==
    /\ Selecting
    /\ call.field_name = "title" /\ call.field_info.field
    /\ call.field_info.value = S("")
    /\ _map_field_value("title", call.local_data, call.field_info) = S("abc")
    /\ call.result.queued = <<>>

\* C13 (the claim as the spec states it): a batch never raises because of a
\* failure on one record: no exception leaves process_product_updates, and
\* at the end of the batch every loaded record was reached and the summary
\* counts every one of them.
C13_BatchNeverRaises ==
    /\ pc # "raised"
    /\ pc = "done" =>
          /\ Len(trace) = Len(products)
          /\ results.successful + results.failed = Len(products)

\* the error entries of the summary for a selected row
ErrorsOfRow(sp) == {m \in 1..Len(results.errors) :
                       /\ results.errors[m].product_id = sp.product_id
                       /\ results.errors[m].proc_id = sp.proc_id}

\* "field: value" of the pushes of an entry that failed, in the order issued
RECURSIVE FailedFields(_, _)
FailedFields(queued, pushes) ==
    IF pushes = <<>> THEN <<>>
    ELSE IF Head(pushes) THEN FailedFields(Tail(queued), Tail(pushes))
    ELSE <<Head(queued).field_id \o ": " \o PyStr(Head(queued).field_value)>>
         \o FailedFields(Tail(queued), Tail(pushes))

\* C14 (the claim as the spec states it): at the end of a batch, every row the
\* queue query returned that did not end updated has exactly one error entry
\* in the summary, carrying its product_id, its proc_id and a reason; the
\* entry of a partial push failure carries the number of failed pushes, the
\* number queued, and the name of each field whose push failed.
C14_EveryFailureReported ==
    pc = "done" =>
        /\ \A j \in 1..Len(synced_products) :
              LET sp == synced_products[j] IN
              ~RowFor(sp).is_fields_updated =>
                  /\ Cardinality(ErrorsOfRow(sp)) = 1
                  /\ \A m \in ErrorsOfRow(sp) : results.errors[m].error # ""
        /\ \A e \in Entries :
              SomePushFailed(e) =>
                  \A m \in ErrorsFor(e) :
                      /\ results.errors[m].failed_updates =
                             Cardinality({n \in 1..Len(e.pushes) : ~e.pushes[n]})
                      /\ results.errors[m].of = Len(e.queued)
                      /\ results.errors[m].field_errors = FailedFields(e.queued, e.pushes)

\* the live field set of the procedure of a row, as the marketplace holds it
LiveOf(r) == remote[r.proc_id]

\* C15: when the process is killed at any point of a record's reconcile before
\* its write-back, the row still has is_fields_updated = false (the row of the
\* record the loop stands at is never marked updated); and every pass decides
\* from the live field set: each update it queues is for a field that was
\* empty in the fetched set, and each update still to be pushed is for a field
\* that is still empty at the marketplace, so a field filled before the kill
\* is not pushed again.
C15_CrashSafe ==
    /\ \A a \in Accounts :
          AtRecord(a) => \E r \in store : /\ r.username = a[1] /\ r.product_id = a[2]
                                          /\ ~r.is_fields_updated
    /\ \A e \in Entries : \A m \in 1..Len(e.queued) :
          ~Present(e.live[e.queued[m].field_id].value)
    /\ pc = "push" =>
          \A m \in k..Len(field_updates) :
              ~Present(LiveOf(products[i])[field_updates[m].field_id].value)

\* a pass after a kill: the row was never written (last_attempt_time NULL,
\* not updated), `photo` was filled before the kill, and the pass queues the
\* fields still empty without `photo`
C15_Witness ==
    /\ pc = "push"
    /\ products[i].last_attempt_time = NULL
    /\ ~RowFor(products[i]).is_fields_updated
    /\ trace[Len(trace)].live["photo"].value = S("img-77")
    /\ field_updates # <<>>
    /\ \A m \in 1..Len(field_updates) : field_updates[m].field_id # "photo"

\* the answers the running create job got for a product
AnswersFor(p) == {sync.sent[j].resp : j \in {n \in 1..Len(sync.sent) : sync.sent[n].product_id = p}}

BatchStep == pc # "idle" \/ pc' # "idle"

\* C18: a step of a batch run for an account leaves the Product table as it
\* is, deletes and creates no SyncedProduct row, leaves unchanged every row
\* of another username and every row with is_fields_updated = true, and on
\* the rows it writes keeps username, product_id, proc_id and synced_at.
C18_EngineFrame ==
    [][BatchStep =>
          LET u == IF pc = "idle" THEN login' ELSE login IN
          /\ listing' = listing
          /\ Cardinality(store') = Cardinality(store)
          /\ \A r \in store :
                /\ \E q \in store' : /\ SameRow(q, r)
                                     /\ q.proc_id = r.proc_id
                                     /\ q.synced_at = r.synced_at
                /\ (r.username # u \/ r.is_fields_updated) => r \in store'
      ]_vars

\* a batch has written a row (a failed attempt) while the table holds a row
\* of another username and an updated row of the same username
C18_Witness ==
    /\ \E e \in Entries : e.counted = "failed" /\ RowFor(e).last_attempt_time = At(e.at)
    /\ \E r \in store : r.username # login
    /\ \E q \in store : q.username = login /\ q.is_fields_updated

\* the candidates of a live field set that need filling and for which the
\* mapper returns a value
Fillable(api_fields, local_product_data) ==
    {f \in DOMAIN api_fields :
        /\ IsCandidate(f, api_fields[f])
        /\ needs_update(f, api_fields[f])
        /\ _map_field_value(f, local_product_data, api_fields[f]) # None
        /\ ~IsRaise(_map_field_value(f, local_product_data, api_fields[f]))}

\* the live fields of the record were fetched
Fetched(e) == e.fetch \in {"no_fields", "result"}

\* C21 (the claim as the spec states it): for every record whose live fields
\* were fetched, the field updates queued are exactly the candidates that
\* need filling and have a mapped value, one per field, each with the mapper's
\* value, and the set-field calls issued are the queued ones, each once; a
\* candidate that needs filling and is unmapped is not queued, and when no
\* candidate is left the record is counted successful, marked updated and has
\* no error entry.
C21_UnmappedNotPushed ==
    /\ \A j \in 1..Len(trace) :
          LET e == trace[j]
              local == listing[e.product_id].data
              fillable == Fillable(e.live, local)
          IN  Fetched(e) =>
                /\ {e.queued[m].field_id : m \in 1..Len(e.queued)} = fillable
                /\ Len(e.queued) = Cardinality(fillable)
                /\ \A m \in 1..Len(e.queued) :
                      e.queued[m].field_value =
                          _map_field_value(e.queued[m].field_id, local,
                                           e.live[e.queued[m].field_id])
                /\ Len(e.pushes) <= Len(e.queued)
                /\ Completed(e) => Len(e.pushes) = Len(e.queued)
                /\ fillable = {} =>
                      /\ e.counted = "successful"
                      /\ RowFor(e).is_fields_updated
                      /\ ErrorsFor(e) = {}
    /\ pc = "push" =>
          /\ field_updates = trace[Len(trace)].queued
          /\ k = Len(trace[Len(trace)].pushes) + 1

\* the call under observation is _map_field_value
Mapping == call.fn = "_map_field_value"

\* C22: for a field name of static_values, _map_field_value returns the
\* configured value coerced to the descriptor type, whatever the local listing
\* contains (a key of the same name included), and never None, the falsy
\* static value of `license` included; a `license` whose live value is null is
\* queued with the value false (0 under a numeric descriptor type), with or
\* without the managed-field marker.
C22_StaticPriority ==
    /\ (Mapping /\ call.field_name \in {"regions", "license"}) =>
          LET configured == IF call.field_name = "license"
                            THEN B(FALSE) ELSE L(<<S("33")>>)
          IN  /\ call.result = _convert_value_for_api(configured, call.field_info)
              /\ call.result # None
              /\ ~IsRaise(call.result)
              /\ (call.field_name = "license" /\ call.field_info.type \in {"bool", "char", "text", ""})
                    => call.result = B(FALSE)
    /\ (call.fn = "field_updates" /\ call.field_name = "license"
          /\ call.field_info.value = None) =>
          /\ ~call.result.raised
          /\ call.result.queued =
                <<[field_id |-> "license",
                   field_value |-> IF call.field_info.type = "number"
                                   THEN I(0) ELSE B(FALSE)]>>

\* `license`, type bool, with a local listing that has its own `license` key:
\* the static false is returned
C22_Witness ==
    /\ Mapping
    /\ call.field_name = "license"
    /\ call.field_info.type = "bool"
    /\ "license" \in DOMAIN call.local_data
    /\ call.local_data["license"] = S("Yes")
    /\ call.result = B(FALSE)

\* C23: for the field `photo`, _map_field_value returns None when the local
\* listing has no `images` key or an empty `images` list, whatever else the
\* listing holds (a `photo` key included); when `images` is a non-empty list
\* it returns element 0 coerced to the descriptor type, which is the element
\* itself except under type bool, and never the list.
C23_PhotoSpecialCase ==
    (Mapping /\ call.field_name = "photo") =>
        LET local == call.local_data
            has == "images" \in DOMAIN local
        IN  /\ ~has => call.result = None
            /\ (has /\ local["images"] = L(<<>>)) => call.result = None
            /\ (has /\ local["images"].k = "list" /\ Len(local["images"].v) > 0) =>
                  /\ call.result = IF call.field_info.type = "bool"
                                   THEN B(FALSE) ELSE local["images"].v[1]
                  /\ call.result # local["images"]
            /\ call.result.k # "list"

\* images = ["img-77", "img-78"] gives "img-77"
C23_Witness ==
    /\ Mapping
    /\ call.field_name = "photo"
    /\ call.field_info.type = "text"
    /\ "images" \in DOMAIN call.local_data
    /\ call.local_data["images"] = L(<<S("img-77"), S("img-78")>>)
    /\ call.result = S("img-77")

\* the local key a remote field name resolves to
Renamed(n) == CASE n = "desc" -> "properties" [] n = "photo" -> "images"
                [] n = "year" -> "release_year" [] n = "producer" -> "vendor"
                [] n = "brand" -> "mark" [] OTHER -> n

\* a call of _map_field_value for a field that is neither static nor `photo`
Resolving ==
    /\ Mapping
    /\ call.field_name \notin {"regions", "delivery_period", "delivery_unit",
                               "license", "guarantee", "guarantee_unit", "photo"}

\* values float() accepts
Floatable(x) == \/ x.k \in {"int", "float", "bool"}
                \/ x.k = "str" /\ x.v \in NumericStrings

\* C24 (the claim as the spec states it): for a field that is neither static
\* nor `photo`, _map_field_value returns None exactly when the local listing
\* has no key rename(field name).
C24_RenameResolution ==
    Resolving => (call.result = None <=> Renamed(call.field_name) \notin DOMAIN call.local_data)

\* C24 (amended): for such a field the value is looked up under rename(field
\* name), the remote name itself when field_mappings has no entry. An absent
\* key gives None. With the key present, a field without a registered
\* transformation gives the coerced local value, never None; a field with one
\* gives None exactly when the transformation raises on the value (`price` on a
\* value float() rejects, `best_before` on every value).
C24_RenameResolutionAmended ==
    Resolving =>
        LET key == Renamed(call.field_name)
            local == call.local_data
        IN  /\ key \notin DOMAIN local => call.result = None
            /\ (key \in DOMAIN local /\ call.field_name \notin {"price", "best_before"}) =>
                  /\ call.result = _convert_value_for_api(local[key], call.field_info)
                  /\ call.result # None
            /\ (key \in DOMAIN local /\ call.field_name = "price") =>
                  (call.result = None <=> ~Floatable(local[key]))
            /\ (key \in DOMAIN local /\ call.field_name = "best_before") =>
                  call.result = None

\* `producer` is read under `vendor`
C24_Witness ==
    /\ Resolving
    /\ call.field_name = "producer"
    /\ call.field_info.type = "char"
    /\ call.local_data = ("vendor" :> S("abc"))
    /\ call.result = S("abc")

\* C25 (the claim as the spec states it): for `best_before` with a local value
\* found, _map_field_value returns the generated date, a string, not None.
C25_BestBeforeGenerated ==
    (Mapping /\ call.field_name = "best_before"
             /\ "best_before" \in DOMAIN call.local_data) =>
        /\ call.result # None
        /\ call.result.k = "str"

\* the live `price` of the record is empty and the listing's price is a value
\* the registered transformation (float(x) * 2) raises on
TransformFails(e) ==
    /\ "price" \in DOMAIN e.live
    /\ needs_update("price", e.live["price"])
    /\ "price" \in DOMAIN listing[e.product_id].data
    /\ ~Floatable(listing[e.product_id].data["price"])

\* C26: when the transformation of a field raises on the local value, that
\* field is not queued and no set-field call is issued for it; every other
\* candidate of the record that needs filling and has a mapped value is
\* queued with its value and pushed; the record is counted failed only if one
\* of these pushes failed, and when they all succeed it is marked updated
\* with no error entry.
C26_TransformFailureSkipsField ==
    \A j \in 1..Len(trace) :
        LET e == trace[j]
            local == listing[e.product_id].data
        IN  (Fetched(e) /\ TransformFails(e)) =>
              /\ \A m \in 1..Len(e.queued) : e.queued[m].field_id # "price"
              /\ \A f \in DOMAIN e.live \ {"price"} :
                    (/\ IsCandidate(f, e.live[f])
                     /\ needs_update(f, e.live[f])
                     /\ _map_field_value(f, local, e.live[f]) # None) =>
                        \E m \in 1..Len(e.queued) :
                            e.queued[m] =
                                [field_id |-> f,
                                 field_value |-> _map_field_value(f, local, e.live[f])]
              /\ Completed(e) =>
                    /\ Len(e.pushes) = Len(e.queued)
                    /\ e.counted = "failed" <=> SomePushFailed(e)
                    /\ ~SomePushFailed(e) =>
                          /\ RowFor(e).is_fields_updated
                          /\ ErrorsFor(e) = {}

\* listing p1, price 'abc': license, photo and producer were pushed, price was
\* not, and the record is marked updated with its price still empty
C26_Witness ==
    \E j \in 1..Len(trace) :
        LET e == trace[j] IN
            /\ Fetched(e) /\ TransformFails(e) /\ Completed(e)
            /\ {e.queued[m].field_id : m \in 1..Len(e.queued)} = {"license", "photo", "producer"}
            /\ e.pushes = <<TRUE, TRUE, TRUE>>
            /\ e.counted = "successful"
            /\ RowFor(e).is_fields_updated
            /\ remote[e.proc_id]["price"].value = None

\* the strings of LocalValues that equal "true", "1", "yes" or "on" when case
\* is ignored
TrueStrings == {"Yes", "TRUE", "1", "on"}

\* values that are whole numbers, or text float() reads as one
Integral(x) == \/ x.k \in {"int", "bigint", "bool"}
               \/ x.k = "float" /\ x.v % 10 = 0
               \/ x.k = "str" /\ x.v \in NumericStrings

\* the whole number an integral value stands for
WholeOf(x) == CASE x.k = "int" -> x.v
                [] x.k = "bool" -> IF x.v THEN 1 ELSE 0
                [] x.k = "float" -> x.v \div 10
                [] x.k = "str" -> ParseNat(x.v)

\* the rule the result r of coercing x to descriptor type t is to follow
CoercionRule(x, t, r) ==
    IF t \in {"number", "float", "int"}
    THEN /\ Integral(x) =>
               IF x.k = "bigint" THEN r = x ELSE r = I(WholeOf(x))
         /\ (x.k = "float" /\ ~Integral(x)) => r = x
         /\ (~Integral(x) /\ x.k # "float") => r = S(PyStr(x))
    ELSE IF t = "bool"
    THEN /\ x.k = "bool" => r = x
         /\ x.k = "str" => r = B(x.v \in TrueStrings)
         /\ x.k \notin {"bool", "str"} => r = B(Truthy(x))
    ELSE IF t = "date"
    THEN TRUE
    ELSE /\ x.k \in {"list", "dict", "bool"} => r = x
         /\ x.k \notin {"list", "dict", "bool"} => r = S(PyStr(x))

\* C27 (the claim as the spec states it): _convert_value_for_api follows the
\* rules by descriptor type on every local value: under number/float/int an
\* integral value becomes an integer and a value float() rejects becomes its
\* text; under bool a boolean is unchanged, a string is true exactly when it
\* is "true", "1", "yes" or "on" ignoring case, any other value goes by
\* truthiness; under any other type but date, lists, objects and booleans
\* are unchanged and everything else becomes its text.
C27_CoercionRules ==
    call.fn = "_convert_value_for_api" =>
        CoercionRule(call.local_value, call.field_info.type, call.result)

\* how many times an event occurs in a sequence of events
Count(events, what) == Cardinality({m \in 1..Len(events) : events[m] = what})

\* C28: within a batch the records reached are the loaded records, in the
\* order of the queue query, each once; for each of them the live fields are
\* fetched once, whatever the answer, and each queued field update is pushed
\* at most once, in the order queued, whatever the result of the push; the
\* record after a failed one is a different record.
C28_NoInPassRetry ==
    /\ Len(trace) <= Len(products)
    /\ pc = "fetch" => i = Len(trace) + 1
    /\ pc = "push" => i = Len(trace)
    /\ \A a, b \in 1..Len(products) :
          a < b => /\ products[a].product_id # products[b].product_id
                   /\ PositionIn(synced_products, products[a])
                          < PositionIn(synced_products, products[b])
    /\ \A j \in 1..Len(trace) :
          LET e == trace[j] IN
          /\ e.username = products[j].username
          /\ e.product_id = products[j].product_id
          /\ Count(e.events, "fetch") = 1
          /\ e.events[1] = "fetch"
          /\ Count(e.events, "push") = Len(e.pushes)
          /\ Len(e.pushes) <= Len(e.queued)
          /\ \A m, n \in 1..Len(e.queued) :
                m # n => e.queued[m].field_id # e.queued[n].field_id
    /\ pc = "push" => k = Len(trace[Len(trace)].pushes) + 1

\* a batch of two records: the fetch of the first failed and the loop went on
\* to the second, one of whose pushes failed and was followed by the next push
C28_Witness ==
    /\ Len(trace) = 2
    /\ trace[1].fetch = "raise" /\ trace[1].counted = "failed"
    /\ trace[1].events = <<"fetch">>
    /\ trace[2].product_id # trace[1].product_id
    /\ Len(trace[2].pushes) = 3
    /\ ~trace[2].pushes[1]
    /\ trace[2].counted = "failed"

\* the Gateway calls and sleeps of the batch so far, in order
RECURSIVE EventsFrom(_)
EventsFrom(j) == IF j > Len(trace) THEN <<>> ELSE trace[j].events \o EventsFrom(j + 1)

BatchEvents == EventsFrom(1)

GatewayCall(ev) == ev \in {"fetch", "push"}

\* C29 (the claim as the spec states it): between any two consecutive Gateway
\* calls of a batch (a fetch or a push, of the same record or of consecutive
\* records) the process sleeps: no Gateway call directly follows another.
C29_PauseBetweenCalls ==
    \A m \in 1..(Len(BatchEvents) - 1) :
        GatewayCall(BatchEvents[m]) => BatchEvents[m + 1] = "sleep"

\* the latest authenticated call of the process, and what it started from
CallMade == client.for_index # 0
RefreshDue ==
    /\ client.held.expired
    /\ client.held.refresh_token_value # NoToken
    /\ client.held.client_id # ""
IsRefresh(request) == request.endpoint = "/auth" /\ request.method = "refresh_token"
Refreshes == {m \in 1..Len(client.log) : IsRefresh(client.log[m])}
Authenticated == {m \in 1..Len(client.log) : client.log[m].endpoint = "/urpc"}
\* the engine has acted on the outcome of the call
Surfaced == CallMade /\ Len(trace) = client.for_index
FetchFailureRecorded(e) ==
    /\ e.counted = "failed"
    /\ e.pushes = <<>>
    /\ ~RowFor(e).is_fields_updated
    /\ RowFor(e).last_attempt_time = At(e.at)
    /\ results.failed >= 1
    /\ \E m \in 1..Len(results.errors) : results.errors[m] = FetchError(RowFor(e))

\* the refresh request itself triggers no other refresh: a call posts at most
\* one refresh, without an Authorization header, and none unless one is due
NoNestedRefresh ==
    /\ Cardinality(Refreshes) <= 1
    /\ \A m \in Refreshes : client.log[m].bearer = NoToken
    /\ Refreshes # {} => RefreshDue

BothCallsSucceeded == scraper.last.contract = "list" /\ scraper.last.second = "list"

\* a finished run leaves ScrapperState.offset at the offset it read plus the
\* number of results of the contract_ref call when both calls succeeded, and
\* at the offset it read in every other case
CursorAfterRun ==
    (scraper.pc = "idle" /\ scraper.last.ran) =>
        scraper.offset = IF BothCallsSucceeded
                         THEN scraper.last.current_offset
                                  + Len(scraper.last.contract_results)
                         ELSE scraper.last.current_offset

\* the offset never decreases, and it changes only in the step that ends a run
CursorNeverDecreases ==
    [][/\ scraper'.offset >= scraper.offset
       /\ scraper'.offset # scraper.offset => scraper.pc = "sleeping" /\ scraper'.pc = "idle"]_vars

\* C31: a run of scrape_and_save advances ScrapperState.offset only when both
\* RPC calls succeeded, and then by exactly the number of results of the
\* contract_ref call; in every other run the offset is unchanged; over any
\* sequence of runs the offset never decreases.
C31_ScraperCursor == []CursorAfterRun /\ CursorNeverDecreases

\* a second run that advanced the cursor past a first advance, by the length
\* of a contract_ref result one of whose items has no proc_id
C31_Witness ==
    /\ scraper.pc = "idle" /\ scraper.last.ran
    /\ BothCallsSucceeded
    /\ scraper.last.current_offset > 0
    /\ Len(scraper.last.contract_results) = 2
    /\ Len(proc_ids_of(scraper.last.contract_results)) = 1
    /\ scraper.offset = scraper.last.current_offset + 2

\* the row of the table with the key of a loaded record
RowOfKey(rec) == {r \in store : r.username = rec.username /\ r.product_id = rec.product_id}
HasUpdatedRow(rec) == \E r \in RowOfKey(rec) : r.is_fields_updated

\* a row with is_fields_updated = true is in the table after the step as it
\* was before it
UpdatedRowsStay == \A r \in store : r.is_fields_updated => r \in store'
\* the query of a batch that starts returns no row whose flag is true
UpdatedRowsNotSelected ==
    (pc = "idle" /\ pc' # "idle") =>
        \A j \in 1..Len(synced_products') : ~HasUpdatedRow(synced_products'[j])
\* a step that issues a Gateway call (it adds a trace entry or extends the
\* last one) issues it for a record whose row has the flag false
UpdatedRowsNotCalled ==
    (trace' # trace /\ trace' # <<>>) => ~HasUpdatedRow(trace'[Len(trace')])

\* C32: is_fields_updated = true is absorbing: once a row has it, no later
\* batch selects the row or issues a Gateway call for it, and no step changes
\* its is_fields_updated or its last_attempt_time.
C32_UpdatedIsAbsorbing ==
    [][UpdatedRowsStay /\ UpdatedRowsNotSelected /\ UpdatedRowsNotCalled]_vars

\* a record was filled by successful pushes, and a later batch of its account
\* is at the fetch of another record
C32_Witness ==
    \E r \in store :
        /\ r.is_fields_updated
        /\ <<r.username, r.product_id>> \notin noop_done
        /\ pc = "fetch" /\ login = r.username
        /\ Len(trace) = 0
        /\ \A j \in 1..Len(products) : products[j].product_id # r.product_id
        /\ Cardinality(Where(store, r.username)) >= 1

\* C33 (the claim as the spec states it): in the summary a batch returns,
\* total = successful + failed, errors has one entry per failed record, and
\* total is the number of rows the queue query returned for the batch.
C33_SummaryArithmetic ==
    pc = "done" =>
        /\ results.total = results.successful + results.failed
        /\ Len(results.errors) = results.failed
        /\ results.total = Len(synced_products)

\* the records of the batch whose row has is_fields_updated = true (every
\* selected row had it false), and those whose row carries the time of the
\* attempt of this batch
Promoted == {j \in 1..Len(trace) : RowFor(trace[j]).is_fields_updated}
Stamped == {j \in 1..Len(trace) : RowFor(trace[j]).last_attempt_time = At(trace[j].at)}

\* C34 (the claim as the spec states it): in the summary a batch returns,
\* successful is the number of records whose row went from is_fields_updated
\* = false to true in the batch and failed is the number of records whose row
\* got its last_attempt_time set in the batch, also when a save() fails.
C34_SummaryAgreesWithStore ==
    pc = "done" =>
        /\ results.successful = Cardinality(Promoted)
        /\ results.failed = Cardinality(Stamped)

\* the processes run with the repository's APIClient
RepositoryClient == client.methods = APIClientMethods
\* the record of a trace entry had a field to fill: updates were queued for
\* it, or its fetch failed and the fields the marketplace holds for it (which
\* are as they were, nothing having been pushed) give updates to queue
HadWork(e) ==
    \/ e.queued # <<>>
    \/ /\ e.fetch = "raise"
       /\ LET api_fields == remote[e.proc_id]
              local_product_data == listing[e.product_id].data
          IN  /\ ~MappingRaises(api_fields, local_product_data)
              /\ FieldUpdates(api_fields, local_product_data) # <<>>
\* the update path of a record: its live fields were fetched, set-field calls
\* were issued, and its row ended with is_fields_updated = true
UpdatePathTaken(e) ==
    /\ e.fetch = "result"
    /\ e.pushes # <<>>
    /\ e.counted = "successful"
    /\ RowFor(e).is_fields_updated

\* with the repository's APIClient every record a batch attempts ends as
\* failed with a fetch error, and no set-field call is issued
FetchAlwaysFails ==
    RepositoryClient =>
        \A e \in Entries : e.fetch = "raise" /\ e.counted = "failed" /\ e.pushes = <<>>

\* C35 (the claim as the spec states it): with the repository's APIClient the
\* update path is reachable: when the marketplace answers every request it
\* receives favourably, a batch that attempted a record with a field to fill
\* ends with the live fields of that record fetched, its set-field calls
\* issued and its row at is_fields_updated = true.
C35_UpdatePathReachable ==
    (RepositoryClient /\ pc = "done") =>
        \A e \in Entries : HadWork(e) => UpdatePathTaken(e)

\* the products the running create job has sent, and the one it sends next
SentProducts == {sync.sent[j].product_id : j \in 1..Len(sync.sent)}

\* C36: a create job never sends a product for which its user already has a
\* SyncedProduct row (the product it is about to send has none, and those it
\* sent had none when sent: each was sent once, and has a row only if its
\* answer carried a proc_id); a run sends at most products_per_batch products;
\* and in the summary of a finished run total = successful + failed.
C36_CreateJobNoRepeat ==
    /\ sync.pc = "create" => ~is_synced(store, sync.login, sync.products[sync.i])
    /\ Cardinality(SentProducts) = Len(sync.sent)
    /\ \A j \in 1..Len(sync.sent) :
          is_synced(store, sync.login, sync.sent[j].product_id)
              => sync.sent[j].resp = "proc_id"
    /\ Len(sync.sent) <= sync.products_per_batch
    /\ Len(sync.products) <= sync.products_per_batch
    /\ sync.pc = "done" =>
          /\ sync.results.total = sync.results.successful + sync.results.failed
          /\ sync.results.total = Len(sync.sent)

\* a later run of a user who has a row from an earlier run: it is full, about
\* to send its second product, and another product would still be pending
C36_Witness ==
    /\ sync.pc = "create"
    /\ sync.products_per_batch = 2
    /\ Len(sync.sent) = 1
    /\ \E r \in store :
          /\ r.username = sync.login
          /\ r.product_id \notin SentProducts
          /\ \A j \in 1..Len(sync.products) : sync.products[j] # r.product_id
    /\ \E p \in NotSynced(store, sync.login) :
          \A j \in 1..Len(sync.products) : sync.products[j] # p
====
